---------------------------- MODULE Spec2Model ----------------------------
(***************************************************************************)
(* A model of the LIFX LAN protocol codec and of the request/response      *)
(* primitive of lifxdev (src/lifxdev/messages/packet.py and the payload    *)
(* schemas of src/lifxdev/messages/light_messages.py).                     *)
(*                                                                         *)
(* Python values are modelled as follows.  Numbers (int, bool, float with  *)
(* an integral value) are integers, True = 1 and False = 0 as in Python.   *)
(* The elements of a char register are records [kind, v]: kind "int" is    *)
(* the Python int v, kind "bytes" the one-byte bytes object bytes([v]).    *)
(* A byte string is a sequence of 0..255.  A call that raises returns a    *)
(* record whose err field names the exception; err = "none" is a normal    *)
(* return.  TLC integers are 32 bit wide, so the numbers drawn for u32,    *)
(* u64 and f32 registers stay below 2^31.                                  *)
(***************************************************************************)
EXTENDS Integers, Sequences, FiniteSets, TLC

Pow2(n) == 2 ^ n

RECURSIVE SeqSum(_)
SeqSum(s) == IF s = <<>> THEN 0 ELSE Head(s) + SeqSum(Tail(s))

\* Python slice s[a:b] of a sequence (a, b >= 0, zero based, clipped)
Slice(s, a, b) ==
    LET hi == IF b < Len(s) THEN b ELSE Len(s)
    IN  IF a >= hi THEN <<>> ELSE SubSeq(s, a + 1, hi)

Zeros(n) == [i \in 1..n |-> 0]

(***************************************************************************)
(* LifxType: size in bits, struct format (none when size % 8 > 0)          *)
(***************************************************************************)
LifxTypes == {"bool", "char", "f32", "s16", "u2", "u6", "u8", "u12", "u16", "u32", "u64"}

LifxTypeBits(t) ==
    CASE t = "bool" -> 1
      [] t = "char" -> 8
      [] t = "f32"  -> 32
      [] t = "s16"  -> 16
      [] t = "u2"   -> 2
      [] t = "u6"   -> 6
      [] t = "u8"   -> 8
      [] t = "u12"  -> 12
      [] t = "u16"  -> 16
      [] t = "u32"  -> 32
      [] t = "u64"  -> 64

LifxTypeHasFmt(t) == t \notin {"bool", "u2", "u6", "u12"}

Reg(n, t, l) == [name |-> n, type |-> t, len |-> l]

(***************************************************************************)
(* The register tables of the structs and of the registered messages       *)
(***************************************************************************)
FrameRegisters ==
    << Reg("size", "u16", 1), Reg("protocol", "u12", 1), Reg("addressable", "bool", 1),
       Reg("tagged", "bool", 1), Reg("origin", "u2", 1), Reg("source", "u32", 1) >>

FrameAddressRegisters ==
    << Reg("target", "u8", 8), Reg("reserved_1", "u8", 6), Reg("res_required", "bool", 1),
       Reg("ack_required", "bool", 1), Reg("reserved_2", "u6", 1), Reg("sequence", "u8", 1) >>

ProtocolHeaderRegisters ==
    << Reg("reserved_1", "u64", 1), Reg("type", "u16", 1), Reg("reserved_2", "u16", 1) >>

HsbkRegisters ==
    << Reg("hue", "u16", 1), Reg("saturation", "u16", 1),
       Reg("brightness", "u16", 1), Reg("kelvin", "u16", 1) >>

SetColorRegisters ==
    << Reg("reserved", "u8", 1), Reg("color", "Hsbk", 1), Reg("duration", "u32", 1) >>

SetWaveformRegisters ==
    << Reg("reserved", "u8", 1), Reg("transient", "u8", 1), Reg("color", "Hsbk", 1),
       Reg("period", "u32", 1), Reg("cycles", "f32", 1), Reg("skew_ratio", "s16", 1),
       Reg("waveform", "u8", 1) >>

StateRegisters ==
    << Reg("color", "Hsbk", 1), Reg("reserved_1", "s16", 1), Reg("power", "u16", 1),
       Reg("label", "char", 32), Reg("reserved_2", "u64", 1) >>

SetPowerRegisters == << Reg("level", "u16", 1), Reg("duration", "u32", 1) >>

StatePowerRegisters == << Reg("level", "u16", 1) >>

InfraredRegisters == << Reg("brightness", "u16", 1) >>

\* GetService (type 2) is declared in lifxdev/messages/device_messages.py
GetService == [cls |-> "GetService", type |-> 2, registers |-> <<>>]

\* _MESSAGE_TYPES as filled by the set_message_type decorators: type -> class
MessageClasses ==
    { [cls |-> "Acknowledgement", type |-> 45,  registers |-> <<>>],
      [cls |-> "Get",             type |-> 101, registers |-> <<>>],
      [cls |-> "SetColor",        type |-> 102, registers |-> SetColorRegisters],
      [cls |-> "SetWaveform",     type |-> 103, registers |-> SetWaveformRegisters],
      [cls |-> "State",           type |-> 107, registers |-> StateRegisters],
      [cls |-> "GetPower",        type |-> 116, registers |-> <<>>],
      [cls |-> "SetPower",        type |-> 117, registers |-> SetPowerRegisters],
      [cls |-> "StatePower",      type |-> 118, registers |-> StatePowerRegisters],
      [cls |-> "GetInfrared",     type |-> 120, registers |-> <<>>],
      [cls |-> "StateInfrared",   type |-> 121, registers |-> InfraredRegisters],
      [cls |-> "SetInfrared",     type |-> 122, registers |-> InfraredRegisters],
      GetService }

MESSAGE_TYPES == { m.type : m \in MessageClasses }

MessageClassOfType(t) == CHOOSE m \in MessageClasses : m.type = t

Registers(cls) ==
    CASE cls = "Frame"          -> FrameRegisters
      [] cls = "FrameAddress"   -> FrameAddressRegisters
      [] cls = "ProtocolHeader" -> ProtocolHeaderRegisters
      [] cls = "Hsbk"           -> HsbkRegisters
      [] cls = "LifxMessage"    -> <<>>
      [] OTHER -> (CHOOSE m \in MessageClasses : m.cls = cls).registers

\* payload.type: None for a struct that is no registered message
TypeOfClass(cls) ==
    IF \E m \in MessageClasses : m.cls = cls
    THEN (CHOOSE m \in MessageClasses : m.cls = cls).type
    ELSE 0

IsLifxType(t) == t \in LifxTypes

Range(s) == { s[i] : i \in DOMAIN s }

\* self._names
RegNames(cls) == { reg.name : reg \in Range(Registers(cls)) }

\* the register of a name: its type self._types[name] and length self._lens[name]
RegOf(cls, name) == CHOOSE reg \in Range(Registers(cls)) : reg.name = name


(***************************************************************************)
(* struct.pack / struct.unpack, little endian                              *)
(***************************************************************************)
PyInt(n) == [kind |-> "int", v |-> n]
PyBytes(b) == [kind |-> "bytes", v |-> b]

Ok(bs) == [err |-> "none", bytes |-> bs]
Raise(e) == [err |-> e, bytes |-> <<>>]

RECURSIVE LEBytes(_, _)
LEBytes(v, n) == IF n = 0 THEN <<>> ELSE <<v % 256>> \o LEBytes(v \div 256, n - 1)

\* the value of little-endian bytes, most significant byte first (Horner)
RECURSIVE LEValue(_)
LEValue(bs) ==
    IF bs = <<>> THEN 0 ELSE LEValue(Tail(bs)) * 256 + Head(bs)

\* the number of bits of n, 0 <= n < 2^31
BitLen(n) ==
    CHOOSE k \in 0..31 : (k = 31 \/ n < Pow2(k)) /\ (k = 0 \/ Pow2(k - 1) <= n)

\* does the unsigned number v fit into bits bits (v is below 2^31 in the model)
FitsUnsigned(v, bits) == v >= 0 /\ (bits >= 31 \/ v < Pow2(bits))

\* the binary32 nearest to the integer n >= 0 (round half to even)
F32Round(n) ==
    IF n < Pow2(24) THEN n
    ELSE LET q    == Pow2(BitLen(n) - 24)
             lo   == n \div q
             r    == n % q
             half == q \div 2
             up   == r > half \/ (r = half /\ lo % 2 = 1)
         IN  (IF up THEN lo + 1 ELSE lo) * q

\* the 23 fraction bits of the binary32 r = 1.f * 2^e
F32Frac(r, e) ==
    (IF e <= 23 THEN r * Pow2(23 - e) ELSE r \div Pow2(e - 23)) - Pow2(23)

\* the four bytes of a binary32 with sign 0, biased exponent and fraction
F32Bytes(biased, frac) ==
    << frac % 256, (frac \div 256) % 256,
       (biased % 2) * 128 + frac \div 65536, biased \div 2 >>

\* the bytes of the binary32 r > 0, or of 0.0
F32Encode(r) ==
    IF r = 0 THEN <<0, 0, 0, 0>>
    ELSE F32Bytes(BitLen(r) - 1 + 127, F32Frac(r, BitLen(r) - 1))

\* struct.pack("<f", n): the IEEE 754 binary32 bytes of the rounded value
F32Pack(n) == F32Encode(F32Round(n))

\* r1 + r2 of two byte results, the first exception winning
Cat(r1, r2) ==
    IF r1.err # "none" THEN r1
    ELSE IF r2.err # "none" THEN r2
    ELSE Ok(r1.bytes \o r2.bytes)

\* struct.unpack("<f", bs) of a non-negative binary32 with an integral value
F32Unpack(bs) ==
    LET biased == (bs[4] % 128) * 2 + bs[3] \div 128
        frac   == (bs[3] % 128) * 65536 + bs[2] * 256 + bs[1]
        mant   == Pow2(23) + frac
        e      == biased - 127
    IN  CASE biased = 0 /\ frac = 0 -> 0
          [] biased # 0 /\ e >= 23 /\ e <= 30 -> mant * Pow2(e - 23)
          [] biased # 0 /\ e >= 0 /\ e < 23 /\ mant % Pow2(23 - e) = 0 -> mant \div Pow2(23 - e)

\* struct.pack("<" + fmt, v) for one value of a LifxType that has a format
PackValue(t, v) ==
    CASE t = "char" -> IF v.kind = "bytes" THEN Ok(<<v.v>>) ELSE Raise("struct.error")
      [] t = "f32"  -> Ok(F32Pack(v))
      [] t = "s16"  -> IF v >= -32768 /\ v <= 32767
                       THEN Ok(LEBytes((v + 65536) % 65536, 2))
                       ELSE Raise("struct.error")
      [] OTHER      -> IF FitsUnsigned(v, LifxTypeBits(t))
                       THEN Ok(LEBytes(v, LifxTypeBits(t) \div 8))
                       ELSE Raise("struct.error")

\* struct.pack("<" + fmt * Len(vs), *vs): the values' bytes one after the
\* other, each value LifxTypeBits(t) / 8 bytes wide, or struct.error
PackValues(t, vs) ==
    IF \E i \in 1..Len(vs) : PackValue(t, vs[i]).err # "none"
    THEN Raise("struct.error")
    ELSE Ok([k \in 1..(Len(vs) * (LifxTypeBits(t) \div 8)) |->
                PackValue(t, vs[((k - 1) \div (LifxTypeBits(t) \div 8)) + 1])
                    .bytes[((k - 1) % (LifxTypeBits(t) \div 8)) + 1]])

\* one value of struct.unpack for a chunk of exactly the type's size
UnpackValue(t, bs) ==
    CASE t = "char" -> PyBytes(bs[1])
      [] t = "f32"  -> F32Unpack(bs)
      [] t = "s16"  -> LET u == LEValue(bs) IN IF u >= 32768 THEN u - 65536 ELSE u
      [] OTHER      -> LEValue(bs)

\* list(struct.unpack("<" + fmt * n, chunk)), chunk of exactly n values
UnpackValues(t, n, chunk) ==
    LET w == LifxTypeBits(t) \div 8
    IN  [i \in 1..n |-> UnpackValue(t, SubSeq(chunk, (i - 1) * w + 1, i * w))]

(***************************************************************************)
(* LifxStruct: an instance is [cls, values], values[name] the list of the  *)
(* register's values.  An argument of set_value is [kind, items]: kind     *)
(* "int" a number, "bool" a Python bool, "list" a list, "str" a MAC string *)
(* (items: its six bytes).                                                 *)
(***************************************************************************)
Scalar(x) == [kind |-> "int", items |-> <<x>>]
Bool(b)   == [kind |-> "bool", items |-> <<b>>]
List(s)   == [kind |-> "list", items |-> s]
Str(mac)  == [kind |-> "str", items |-> mac]

\* the object a non-list argument stores
Elem(v) == IF v.kind = "str" THEN [str |-> v.items] ELSE v.items[1]

NoArgs == [n \in {} |-> 0]

Ret(e, inst) == [err |-> e, inst |-> inst]

\* "reserved" in name, for the register names of the tables above
IsReserved(name) == name \in {"reserved", "reserved_1", "reserved_2"}

\* [0] * n as the values of a register (a char register then holds ints)
ZeroList(reg) ==
    IF reg.type = "char" THEN [i \in 1..reg.len |-> PyInt(0)] ELSE Zeros(reg.len)

\* the assignment to self._values[name] at the end of LifxStruct.set_value:
\* a list replaces the register, a scalar is stored at idx (0 when n_items = 1)
StoreValue(inst, reg, value, idx) ==
    IF value.kind = "list"
    THEN IF Len(value.items) # reg.len THEN Ret("ValueError", inst)
         ELSE Ret("none", [inst EXCEPT !.values[reg.name] = value.items])
    ELSE IF reg.len = 1
    THEN Ret("none", [inst EXCEPT !.values[reg.name][1] = Elem(value)])
    ELSE IF idx = <<>> THEN Ret("ValueError", inst)
    ELSE IF idx[1] >= reg.len THEN Ret("IndexError", inst)
    ELSE Ret("none", [inst EXCEPT !.values[reg.name][idx[1] + 1] = Elem(value)])

\* LifxStruct.set_value from the "reserved" test on: a reserved register
\* takes [0] * n_items whatever the value and the index are
SetRegister(inst, reg, value, idx) ==
    IF IsReserved(reg.name)
    THEN StoreValue(inst, reg, List(ZeroList(reg)), <<>>)
    ELSE StoreValue(inst, reg, value, idx)

LifxStruct_set_value_KeepReserved(inst, name, value, idx) ==
    IF name \notin RegNames(inst.cls) THEN Ret("KeyError", inst)
    ELSE StoreValue(inst, RegOf(inst.cls, name), value, idx)

\* LifxStruct.set_value(name, value, idx); idx is <<>> (None) or <<i>>
LifxStruct_set_value(inst, name, value, idx) ==
    IF name \notin RegNames(inst.cls) THEN Ret("KeyError", inst)
    ELSE SetRegister(inst, RegOf(inst.cls, name), value, idx)

Frame_set_value_NoPin(inst, name, value) ==
    LifxStruct_set_value(inst, name,
        IF name = "addressable" THEN Scalar(1) ELSE value, <<>>)

\* Frame.set_value(name, value)
Frame_set_value(inst, name, value) ==
    LET v == CASE name = "protocol"    -> Scalar(1024)
               [] name = "addressable" -> Scalar(1)
               [] name = "origin"      -> Scalar(0)
               [] OTHER                -> value
    IN  LifxStruct_set_value(inst, name, v, <<>>)

\* util.mac_str_to_int_list: the six bytes of the MAC in order, then two zeros
mac_str_to_int_list(mac) == [i \in 1..8 |-> IF i <= 6 THEN mac[i] ELSE 0]

\* FrameAddress.set_value(name, value)
FrameAddress_set_value(inst, name, value) ==
    LET v == IF name = "target" /\ value.kind = "str"
             THEN List(mac_str_to_int_list(value.items))
             ELSE value
    IN  LifxStruct_set_value(inst, name, v, <<>>)

Hsbk_set_value_OpenRange(inst, name, value) ==
    IF value.kind = "list" /\ Len(value.items) > 1 THEN Ret("ValueError", inst)
    ELSE IF value.kind = "list" /\ Len(value.items) = 0 THEN Ret("IndexError", inst)
    ELSE LET hsbk_value == value.items[1]
         IN  IF name = "kelvin" /\ hsbk_value # 0
                /\ (hsbk_value <= 2500 \/ hsbk_value > 9000)
             THEN Ret("ValueError", inst)
             ELSE LifxStruct_set_value(inst, name, Scalar(hsbk_value), <<>>)

\* Hsbk.set_value(name, value)
Hsbk_set_value(inst, name, value) ==
    IF value.kind = "list" /\ Len(value.items) > 1 THEN Ret("ValueError", inst)
    ELSE IF value.kind = "list" /\ Len(value.items) = 0 THEN Ret("IndexError", inst)
    ELSE LET hsbk_value == value.items[1]
         IN  IF name = "kelvin" /\ hsbk_value # 0
                /\ (hsbk_value < 2500 \/ hsbk_value > 9000)
             THEN Ret("ValueError", inst)
             ELSE LifxStruct_set_value(inst, name, Scalar(hsbk_value), <<>>)

\* SetPower.set_value(name, value)
SetPower_set_value(inst, name, value) ==
    LET v == IF name = "level" /\ value.kind = "bool"
             THEN Scalar(value.items[1] * 65535)
             ELSE value
    IN  IF name = "level" /\ (v.kind # "int" \/ v.items[1] \notin {0, 65535})
        THEN Ret("ValueError", inst)
        ELSE LifxStruct_set_value(inst, name, v, <<>>)

\* self.set_value(name, value, idx): the method of the instance's class
SetValue(inst, name, value, idx) ==
    CASE inst.cls \in {"Frame", "FrameAddress", "Hsbk", "SetPower"} /\ idx # <<>>
           -> Ret("TypeError", inst)
      [] inst.cls = "Frame" /\ idx = <<>>        -> Frame_set_value(inst, name, value)
      [] inst.cls = "FrameAddress" /\ idx = <<>> -> FrameAddress_set_value(inst, name, value)
      [] inst.cls = "Hsbk" /\ idx = <<>>         -> Hsbk_set_value(inst, name, value)
      [] inst.cls = "SetPower" /\ idx = <<>>     -> SetPower_set_value(inst, name, value)
      [] OTHER -> LifxStruct_set_value(inst, name, value, idx)

RECURSIVE LifxStruct_init(_, _)

\* the default list of a register in __init__; of a nested register the
\* value of the instance in the registers table while nothing has written
\* to that instance (the references are in heap and msgs)
Default(reg) ==
    IF IsLifxType(reg.type) THEN ZeroList(reg)
    ELSE [i \in 1..reg.len |-> LifxStruct_init(reg.type, NoArgs).inst]

RECURSIVE InitRegs(_, _, _)
InitRegs(r, regs, kwargs) ==
    IF regs = <<>> \/ r.err # "none" THEN r
    ELSE LET reg == Head(regs)
             val == IF reg.name \in DOMAIN kwargs THEN kwargs[reg.name]
                    ELSE List(Default(reg))
         IN  InitRegs(SetValue(r.inst, reg.name, val, <<>>), Tail(regs), kwargs)

\* the constructor cls(kwargs)
LifxStruct_init(cls, kwargs) ==
    InitRegs(Ret("none", [cls |-> cls,
                          values |-> [n \in RegNames(cls) |-> Default(RegOf(cls, n))]]),
             Registers(cls), kwargs)

\* LifxStruct.get_value(name), with the override of StatePower
GetValue(inst, name) ==
    LET value == inst.values[name]
        v     == IF Len(value) = 1 THEN value[1] ELSE value
    IN  IF inst.cls = "StatePower" THEN (IF v > 0 THEN 1 ELSE 0) ELSE v

\* get_size_bits / get_size_bytes / len of a struct class
RECURSIVE SizeBits(_)
SizeBits(cls) ==
    LET rs == Registers(cls)
    IN  SeqSum([i \in 1..Len(rs) |->
                  (IF IsLifxType(rs[i].type) THEN LifxTypeBits(rs[i].type)
                   ELSE SizeBits(rs[i].type)) * rs[i].len])

SizeBytes(cls) == SizeBits(cls) \div 8

(***************************************************************************)
(* to_bytes / from_bytes                                                   *)
(***************************************************************************)
RECURSIVE BitOr(_, _)
BitOr(a, b) ==
    IF a = 0 THEN b
    ELSE IF b = 0 THEN a
    ELSE (IF a % 2 = 1 \/ b % 2 = 1 THEN 1 ELSE 0) + 2 * BitOr(a \div 2, b \div 2)

\* Frame.to_bytes: struct.pack("<HHI", size, bit_field, source)
Frame_to_bytes(inst) ==
    LET size      == GetValue(inst, "size")
        source    == GetValue(inst, "source")
        bit_field == BitOr(BitOr(BitOr(GetValue(inst, "protocol"),
                                       GetValue(inst, "addressable") * Pow2(12)),
                                 GetValue(inst, "tagged") * Pow2(13)),
                           GetValue(inst, "origin") * Pow2(14))
    IN  Cat(PackValue("u16", size), Cat(PackValue("u16", bit_field), PackValue("u32", source)))

\* FrameAddress.to_bytes
FrameAddress_to_bytes(inst) ==
    LET target_bytes   == PackValues("u8", GetValue(inst, "target"))
        res_1_bytes    == PackValues("u8", GetValue(inst, "reserved_1"))
        sequence_bytes == PackValue("u8", GetValue(inst, "sequence"))
        bit_field      == BitOr(GetValue(inst, "res_required"),
                                GetValue(inst, "ack_required") * 2)
        bit_field_bytes == PackValue("u8", bit_field)
    IN  Cat(Cat(target_bytes, res_1_bytes), Cat(bit_field_bytes, sequence_bytes))

RECURSIVE ToBytes(_)

RECURSIVE NestedToBytes(_)
NestedToBytes(lstructs) ==
    IF lstructs = <<>> THEN Ok(<<>>)
    ELSE Cat(ToBytes(Head(lstructs)), NestedToBytes(Tail(lstructs)))

RECURSIVE RegsToBytes(_, _)
RegsToBytes(inst, regs) ==
    IF regs = <<>> THEN Ok(<<>>)
    ELSE LET reg == Head(regs)
             one == IF IsLifxType(reg.type)
                    THEN IF ~LifxTypeHasFmt(reg.type) THEN Raise("RuntimeError")
                         ELSE IF Len(inst.values[reg.name]) # reg.len THEN Raise("struct.error")
                         ELSE PackValues(reg.type, inst.values[reg.name])
                    ELSE NestedToBytes(inst.values[reg.name])
         IN  Cat(one, RegsToBytes(inst, Tail(regs)))

\* LifxStruct.to_bytes
LifxStruct_to_bytes(inst) == RegsToBytes(inst, Registers(inst.cls))

\* self.to_bytes(): the method of the instance's class
ToBytes(inst) ==
    CASE inst.cls = "Frame"        -> Frame_to_bytes(inst)
      [] inst.cls = "FrameAddress" -> FrameAddress_to_bytes(inst)
      [] OTHER                     -> LifxStruct_to_bytes(inst)

NoInst == [cls |-> "none", values |-> NoArgs]

\* r.inst[name] = value, unless an earlier step raised
Then(r, name, value) ==
    IF r.err # "none" THEN r ELSE SetValue(r.inst, name, value, <<>>)

\* Frame.from_bytes
Frame_from_bytes(message_bytes) ==
    IF Len(message_bytes) # 8 THEN Ret("struct.error", NoInst)
    ELSE LET size      == LEValue(SubSeq(message_bytes, 1, 2))
             bit_field == LEValue(SubSeq(message_bytes, 3, 4))
             source    == LEValue(SubSeq(message_bytes, 5, 8))
             frame     == LifxStruct_init("Frame",
                              [n \in {"size", "source"} |->
                                  IF n = "size" THEN Scalar(size) ELSE Scalar(source)])
             bf1 == bit_field \div Pow2(12)
             bf2 == bf1 \div 2
             bf3 == bf2 \div 2
         IN  Then(Then(Then(Then(frame,
                 "protocol", Scalar(bit_field % Pow2(12))),
                 "addressable", Bool(bf1 % 2)),
                 "tagged", Bool(bf2 % 2)),
                 "origin", Scalar(bf3))

\* FrameAddress.from_bytes
FrameAddress_from_bytes(message_bytes) ==
    LET frame_address   == LifxStruct_init("FrameAddress", NoArgs)
        target_bytes    == Slice(message_bytes, 0, 8)
        bit_field_bytes == Slice(message_bytes, 14, 15)
        sequence_bytes  == Slice(message_bytes, 15, 16)
    IN  IF Len(target_bytes) # 8 \/ Len(sequence_bytes) # 1 \/ Len(bit_field_bytes) # 1
        THEN Ret("struct.error", NoInst)
        ELSE LET bit_field == bit_field_bytes[1]
             IN  Then(Then(Then(Then(frame_address,
                     "target", List(UnpackValues("u8", 8, target_bytes))),
                     "sequence", List(UnpackValues("u8", 1, sequence_bytes))),
                     "res_required", Bool(bit_field % 2)),
                     "ack_required", Bool(IF bit_field \div 2 # 0 THEN 1 ELSE 0))

RECURSIVE LifxStruct_from_bytes(_, _)

NoItems(e) == [err |-> e, items |-> <<>>]

\* the struct h decoded in front of the structs r, the first exception winning
ConsItems(h, r) ==
    IF h.err # "none" THEN NoItems(h.err)
    ELSE IF r.err # "none" THEN r
    ELSE [err |-> "none", items |-> <<h.inst>> \o r.items]

\* the rlen nested structs of a register, decoded one after another
RECURSIVE NestedFromBytes(_, _, _)
NestedFromBytes(rtype, rlen, msg_chunk) ==
    IF rlen = 0 THEN [err |-> "none", items |-> <<>>]
    ELSE ConsItems(LifxStruct_from_bytes(rtype, Slice(msg_chunk, 0, SizeBytes(rtype))),
                   NestedFromBytes(rtype, rlen - 1,
                                   Slice(msg_chunk, SizeBytes(rtype), Len(msg_chunk))))

\* t_nbytes of a register: the bytes of its rlen values
RegBytes(reg) ==
    IF IsLifxType(reg.type) THEN (LifxTypeBits(reg.type) \div 8) * reg.len
    ELSE SizeBytes(reg.type) * reg.len

\* the values of one register decoded from its chunk
DecodeReg(reg, msg_chunk) ==
    IF IsLifxType(reg.type)
    THEN IF ~LifxTypeHasFmt(reg.type) THEN NoItems("RuntimeError")
         ELSE IF Len(msg_chunk) # RegBytes(reg) THEN NoItems("struct.error")
         ELSE [err |-> "none", items |-> UnpackValues(reg.type, reg.len, msg_chunk)]
    ELSE NestedFromBytes(reg.type, reg.len, msg_chunk)

\* decoded_registers[rname] = one, in front of the registers decoded after it
ConsKwarg(rname, one, rest) ==
    IF one.err # "none" THEN [err |-> one.err, kwargs |-> NoArgs]
    ELSE IF rest.err # "none" THEN rest
    ELSE [err |-> "none",
          kwargs |-> [n \in {rname} \cup DOMAIN rest.kwargs |->
                        IF n = rname THEN List(one.items) ELSE rest.kwargs[n]]]

\* the decoded_registers of LifxStruct.from_bytes: [err, kwargs]
RECURSIVE DecodeRegs(_, _, _)
DecodeRegs(regs, message_bytes, offset) ==
    IF regs = <<>> THEN [err |-> "none", kwargs |-> NoArgs]
    ELSE ConsKwarg(Head(regs).name,
                   DecodeReg(Head(regs),
                             Slice(message_bytes, offset, offset + RegBytes(Head(regs)))),
                   DecodeRegs(Tail(regs), message_bytes, offset + RegBytes(Head(regs))))

\* a call that raised leaves no instance
NoInstOnError(r) == IF r.err # "none" THEN Ret(r.err, NoInst) ELSE r

\* cls(decoded_registers) at the end of LifxStruct.from_bytes
InitDecoded(cls, d) ==
    IF d.err # "none" THEN Ret(d.err, NoInst)
    ELSE NoInstOnError(LifxStruct_init(cls, d.kwargs))

\* LifxStruct.from_bytes (cls.from_bytes for every class but the two overrides)
LifxStruct_from_bytes(cls, message_bytes) ==
    InitDecoded(cls, DecodeRegs(Registers(cls), message_bytes, 0))

(***************************************************************************)
(* PacketComm.decode_bytes and PacketComm.get_bytes_and_source             *)
(***************************************************************************)
\* the value os.getpid() returns in the process of the model
Pid == 4242

Failed(e) == [err |-> e, frame |-> NoInst, frame_address |-> NoInst,
              protocol_header |-> NoInst, payload |-> NoInst]

LifxResponse(f, fa, ph, p) == [err |-> "none", frame |-> f, frame_address |-> fa,
                               protocol_header |-> ph, payload |-> p]

\* cls.from_bytes(message_bytes)
FromBytes(cls, message_bytes) ==
    CASE cls = "Frame"        -> Frame_from_bytes(message_bytes)
      [] cls = "FrameAddress" -> FrameAddress_from_bytes(message_bytes)
      [] OTHER                -> LifxStruct_from_bytes(cls, message_bytes)

\* the offsets of decode_bytes after the frame, the frame address and the header
HeaderEnd(n) ==
    CASE n = 1 -> SizeBytes("Frame")
      [] n = 2 -> SizeBytes("Frame") + SizeBytes("FrameAddress")
      [] n = 3 -> SizeBytes("Frame") + SizeBytes("FrameAddress")
                  + SizeBytes("ProtocolHeader")

\* decode_bytes: the LifxResponse of the four decoded parts
decode_response(frame, frame_address, protocol_header, payload) ==
    IF payload.err # "none" THEN Failed(payload.err)
    ELSE LifxResponse(frame.inst, frame_address.inst, protocol_header.inst, payload.inst)

\* decode_bytes: the payload, of the class registered for the header's type
decode_payload(frame, frame_address, protocol_header, message_bytes) ==
    IF protocol_header.err # "none" THEN Failed(protocol_header.err)
    ELSE IF GetValue(protocol_header.inst, "type") \notin MESSAGE_TYPES
    THEN Failed("KeyError")
    ELSE decode_response(frame, frame_address, protocol_header,
             FromBytes(MessageClassOfType(GetValue(protocol_header.inst, "type")).cls,
                 Slice(message_bytes, HeaderEnd(3),
                       HeaderEnd(3) + SizeBytes(
                           MessageClassOfType(
                               GetValue(protocol_header.inst, "type")).cls))))

\* decode_bytes: the sequence check, then the protocol header
decode_protocol_header(frame, frame_address, message_bytes, nominal_sequence) ==
    IF frame_address.err # "none" THEN Failed(frame_address.err)
    ELSE IF nominal_sequence # <<>>
            /\ GetValue(frame_address.inst, "sequence") # nominal_sequence[1]
    THEN Failed("SequenceMismatch")
    ELSE decode_payload(frame, frame_address,
             LifxStruct_from_bytes("ProtocolHeader",
                 Slice(message_bytes, HeaderEnd(2), HeaderEnd(3))),
             message_bytes)

\* decode_bytes with the source check in front of the size check
decode_frame_address_SourceFirst(frame, message_bytes, nominal_source, nominal_sequence) ==
    IF frame.err # "none" THEN Failed(frame.err)
    ELSE IF nominal_source # <<>> /\ GetValue(frame.inst, "source") # nominal_source[1]
    THEN Failed("SourceMismatch")
    ELSE IF Len(message_bytes) # GetValue(frame.inst, "size")
    THEN Failed("SizeMismatch")
    ELSE decode_protocol_header(frame,
             FrameAddress_from_bytes(Slice(message_bytes, HeaderEnd(1), HeaderEnd(2))),
             message_bytes, nominal_sequence)

\* decode_bytes: the size check, the source check, then the frame address
decode_frame_address(frame, message_bytes, nominal_source, nominal_sequence) ==
    IF frame.err # "none" THEN Failed(frame.err)
    ELSE IF Len(message_bytes) # GetValue(frame.inst, "size")
    THEN Failed("SizeMismatch")
    ELSE IF nominal_source # <<>> /\ GetValue(frame.inst, "source") # nominal_source[1]
    THEN Failed("SourceMismatch")
    ELSE decode_protocol_header(frame,
             FrameAddress_from_bytes(Slice(message_bytes, HeaderEnd(1), HeaderEnd(2))),
             message_bytes, nominal_sequence)

decode_bytes_SourceFirst(message_bytes, nominal_source, nominal_sequence) ==
    decode_frame_address_SourceFirst(
        Frame_from_bytes(Slice(message_bytes, 0, HeaderEnd(1))),
        message_bytes, nominal_source, nominal_sequence)

\* PacketComm.decode_bytes; nominal_source, nominal_sequence: <<>> (None) or <<n>>.
\* The three RuntimeErrors are named after their messages.
decode_bytes(message_bytes, nominal_source, nominal_sequence) ==
    decode_frame_address(
        Frame_from_bytes(Slice(message_bytes, 0, HeaderEnd(1))),
        message_bytes, nominal_source, nominal_sequence)

Packet(e, bs, src) == [err |-> e, bytes |-> bs, source |-> src]

\* frame["tagged"] of get_bytes_and_source; mac_addr: <<>> (None) or a MAC string
TaggedOf(mac_addr, type) == IF mac_addr # <<>> \/ type = 2 THEN 1 ELSE 0

\* get_bytes_and_source: the bytes and the source that are returned
packet_of(packet_bytes, source) ==
    IF packet_bytes.err # "none" THEN Packet(packet_bytes.err, <<>>, 0)
    ELSE Packet("none", packet_bytes.bytes, source)

\* get_bytes_and_source: frame + frame_address + protocol_header + payload
generate_packet(frame, frame_address, protocol_header, payload) ==
    packet_of(Cat(Cat(ToBytes(frame.inst), ToBytes(frame_address.inst)),
                  Cat(ToBytes(protocol_header.inst), ToBytes(payload))),
              GetValue(frame.inst, "source"))

\* get_bytes_and_source: the frame address with the target of the channel
address_frame(mac_addr, res_required, ack_required, sequence) ==
    Then(Then(Then(IF mac_addr # <<>>
                   THEN Then(LifxStruct_init("FrameAddress", NoArgs),
                             "target", Str(mac_addr))
                   ELSE LifxStruct_init("FrameAddress", NoArgs),
        "res_required", Bool(res_required)),
        "ack_required", Bool(ack_required)),
        "sequence", Scalar(sequence))

\* get_bytes_and_source with a size that leaves the payload out
set_frame_NoPayloadLen(frame_address, payload, type, mac_addr, source) ==
    IF frame_address.err # "none" THEN Packet(frame_address.err, <<>>, 0)
    ELSE IF type = 0 THEN Packet("ValueError", <<>>, 0)
    ELSE generate_packet(
             Then(Then(Then(LifxStruct_init("Frame", NoArgs),
                 "tagged", Bool(TaggedOf(mac_addr, type))),
                 "source", Scalar(IF source = <<>> THEN Pid ELSE source[1])),
                 "size", Scalar(HeaderEnd(3))),
             frame_address,
             Then(LifxStruct_init("ProtocolHeader", NoArgs), "type", Scalar(type)),
             payload)

\* get_bytes_and_source from the payload type test on: the protocol header,
\* then the frame with tagged, source and size
set_frame(frame_address, payload, type, mac_addr, source) ==
    IF frame_address.err # "none" THEN Packet(frame_address.err, <<>>, 0)
    ELSE IF type = 0 THEN Packet("ValueError", <<>>, 0)
    ELSE generate_packet(
             Then(Then(Then(LifxStruct_init("Frame", NoArgs),
                 "tagged", Bool(TaggedOf(mac_addr, type))),
                 "source", Scalar(IF source = <<>> THEN Pid ELSE source[1])),
                 "size", Scalar(HeaderEnd(3) + SizeBytes(payload.cls))),
             frame_address,
             Then(LifxStruct_init("ProtocolHeader", NoArgs), "type", Scalar(type)),
             payload)

get_bytes_and_source_NoPayloadLen(payload, mac_addr, res_required, ack_required, sequence, source) ==
    set_frame_NoPayloadLen(address_frame(mac_addr, res_required, ack_required, sequence),
                           payload, TypeOfClass(payload.cls), mac_addr, source)

\* PacketComm.get_bytes_and_source; source: <<>> (None) or <<n>>
get_bytes_and_source(payload, mac_addr, res_required, ack_required, sequence, source) ==
    set_frame(address_frame(mac_addr, res_required, ack_required, sequence),
              payload, TypeOfClass(payload.cls), mac_addr, source)

(***************************************************************************)
(* The state.                                                              *)
(*   Channel and send_recv: chan, pc, call, sent, inbox, nrecv, result     *)
(*   Codec applied to drawn inputs: stage, enc_in, enc_out, wire, dec_args,*)
(*     dec_out                                                             *)
(*   One struct instance and the last operation on it: obj, last           *)
(***************************************************************************)
VARIABLES chan, pc, call, sent, inbox, nrecv, result,
          stage, enc_in, enc_out, wire, dec_args, dec_out,
          obj, last

commVars   == <<chan, pc, call, sent, inbox, nrecv, result>>
codecVars  == <<stage, enc_in, enc_out, wire, dec_args, dec_out>>
structVars == <<obj, last>>

\* The objects behind the references of nested registers: heap maps the
\* address of an Hsbk object to its value, msgs are the messages built, each
\* with the address its color register holds
VARIABLES heap, msgs

heapVars   == <<heap, msgs>>

\* The device manager during discover; the table of message types while the
\* decorators run, with the class each type was declared with first; and the
\* process manager with the processes of its config
VARIABLES dm, cfg, registry, declared, pm

\* The server's thread pool with the threads it started, and one accepted
\* connection with the command text read from it and what was sent back
VARIABLES tp, srv

\* A device group built from a nested configuration with what its devices
\* were sent, the client of the server, and a tile receiving a colormap
VARIABLES grp, cli, tl

dmVars     == <<dm, cfg>>
regVars    == <<registry, declared>>
pmVars     == <<pm>>
srvVars    == <<tp, srv>>
devVars    == <<grp, cli, tl>>
appVars    == <<dmVars, regVars, pmVars, srvVars, devVars>>
extVars    == <<heapVars, appVars>>
vars       == <<chan, pc, call, sent, inbox, nrecv, result,
                stage, enc_in, enc_out, wire, dec_args, dec_out, obj, last,
                extVars>>

LIFX_PORT == 56700

\* bounds of the model
MaxInbox == 2

\* the values drawn for the arguments
Mac1      == <<1, 35, 69, 103, 137, 171>>
Sources   == {<<>>, <<1234>>}
SeqNums   == {0, 123}

New(cls, kwargs) == LifxStruct_init(cls, kwargs).inst

Kw1(n1, v1) == [n \in {n1} |-> v1]
Kw2(n1, v1, n2, v2) == [n \in {n1, n2} |-> IF n = n1 THEN v1 ELSE v2]

HsbkOf(h, s, b, k) ==
    New("Hsbk", [n \in {"hue", "saturation", "brightness", "kelvin"} |->
                    Scalar(CASE n = "hue" -> h [] n = "saturation" -> s
                             [] n = "brightness" -> b [] OTHER -> k)])

Green == New("SetColor", Kw2("color", Scalar(HsbkOf(21845, 65535, 65535, 3500)),
                             "duration", Scalar(1024)))

(***************************************************************************)
(* The channel: LifxDevice.init_from_ip_addr builds the socket, sets its   *)
(* timeout (None, the default: blocking) and the UdpSender.                *)
(***************************************************************************)
init_from_ip_addr(ip, mac_addr, timeout) ==
    [ip |-> ip, port |-> LIFX_PORT, mac_addr |-> mac_addr, timeout |-> timeout]

Channels ==
    { init_from_ip_addr("192.168.1.255", <<>>, t) : t \in {<<>>, <<1>>} }
    \cup { init_from_ip_addr("192.168.1.10", Mac1, t) : t \in {<<>>, <<1>>} }

NoCall == [payload |-> NoInst, res_required |-> 0, ack_required |-> 0,
           sequence |-> 0, source |-> <<>>, retry_recv |-> "absent"]

Returned(r) == [kind |-> "returned", err |-> "none", response |-> r]
Raised(e)   == [kind |-> "raised", err |-> e, response |-> Failed(e)]
Pending     == [kind |-> "pending", err |-> "none", response |-> Failed("absent")]
\* the None a call without response returns
NoResponse  == Failed("None")

\* the payloads of the modelled calls
CallPayloads == { New("Get", NoArgs), Green, New("State", NoArgs) }

\* the source get_bytes_and_source returned to send_recv
SourceOf(c) == IF c.source = <<>> THEN Pid ELSE c.source[1]

\* datagrams a device or a stranger may send to the socket: a StateInfrared
\* response for every source and sequence, and one cut short
Datagram(src, seqn) ==
    get_bytes_and_source(New("StateInfrared", Kw1("brightness", Scalar(7))),
                         <<>>, 0, 0, seqn, <<src>>).bytes

Datagrams ==
    { Datagram(src, seqn) : src \in {Pid, 1234}, seqn \in SeqNums }
    \cup { SubSeq(Datagram(Pid, 0), 1, 30) }

(***************************************************************************)
(* PacketComm.send_recv.  The call runs to its recvfrom (SendRecv), blocks *)
(* there while datagrams arrive (Deliver), and ends with the datagram it   *)
(* reads (Recv) or with the socket's timeout (RecvTimeout).  retry_recv is *)
(* "absent" when the caller passes no such keyword.                        *)
(***************************************************************************)
\* the classes whose registers table holds an Hsbk() instance, and the
\* address of that instance: one object per table, made when the class is
\* defined
NestedClasses == {"SetColor", "State"}
ProtoAddr(cls) == IF cls = "SetColor" THEN 1 ELSE 2

HeapIdle ==
    /\ heap = <<New("Hsbk", NoArgs), New("Hsbk", NoArgs)>>
    /\ msgs = <<>>

\* ---- the device manager ----
\* a dict as the sequence of its items in insertion order: writing an
\* existing key replaces the value in place, a new key goes to the end
DictHas(d, key) == \E i \in 1..Len(d) : d[i].key = key
DictGet(d, key) == d[CHOOSE i \in 1..Len(d) : d[i].key = key].val
DictSet(d, key, val) ==
    IF DictHas(d, key)
    THEN [i \in 1..Len(d) |-> IF d[i].key = key THEN [key |-> key, val |-> val] ELSE d[i]]
    ELSE Append(d, [key |-> key, val |-> val])

\* the products table, product id -> features: one product for every
\* combination of the three feature flags the class choice reads
ProductIds == 1..8
UnknownProduct == 99
Products(product_id) ==
    [name      |-> product_id,
     multizone |-> (product_id - 1) % 2 = 1,
     matrix    |-> ((product_id - 1) \div 2) % 2 = 1,
     infrared  |-> ((product_id - 1) \div 4) % 2 = 1]

\* the class get_product_info chooses from the features of a product
ProductClass(features) ==
    IF features.multizone THEN "LifxMultiZone"
    ELSE IF features.matrix THEN "LifxTile"
    ELSE IF features.infrared THEN "LifxInfraredLight"
    ELSE "LifxLight"

\* get_product_info after the GetVersion reply: the product of the table
\* with its class, or the KeyError of the table
get_product_info(product_id) ==
    IF product_id \in ProductIds
    THEN [err |-> "none", product |-> Products(product_id),
          class |-> ProductClass(Products(product_id))]
    ELSE [err |-> "KeyError", product |-> Products(1), class |-> ""]

\* the loop body of the broadcast iterations of discover: every response
\* is stored under the IP it came from
RECURSIVE StoreResponses_PerReply(_, _), StoreResponses(_, _)
StoreResponses_PerReply(state_service_dict, search_responses) ==
    IF search_responses = <<>> THEN state_service_dict
    ELSE StoreResponses_PerReply(
             Append(state_service_dict,
                    [key |-> Head(search_responses).addr, val |-> Head(search_responses)]),
             Tail(search_responses))

StoreResponses(state_service_dict, search_responses) ==
    IF search_responses = <<>> THEN state_service_dict
    ELSE StoreResponses(
             DictSet(state_service_dict, Head(search_responses).addr,
                     Head(search_responses)),
             Tail(search_responses))

\* ---- the device config ----
\* DeviceType and _DEVICE_TYPES: the type names of a config and their classes
DeviceTypes == {"group", "light", "infrared", "multizone", "tile"}
DeviceClass(type_name) ==
    CASE type_name = "light"     -> "LifxLight"
      [] type_name = "infrared"  -> "LifxInfraredLight"
      [] type_name = "multizone" -> "LifxMultiZone"
      [] type_name = "tile"      -> "LifxTile"
      [] OTHER                   -> "DeviceGroup"

\* _load_device_group on one entry conf of a config dict whose groups hold
\* devices only: conf.type, conf.ip and conf.devices are conf.get(...), <<>>
\* for None.  The result is the device or group made, or the error raised.
LoadEntry(conf, loaded_devices) ==
    IF conf.type = <<>> THEN [err |-> "DeviceConfigError", val |-> <<>>]
    ELSE IF conf.type[1] \notin DeviceTypes THEN [err |-> "DeviceConfigError", val |-> <<>>]
    ELSE IF conf.ip = <<>> /\ conf.type[1] # "group"
    THEN [err |-> "DeviceConfigError", val |-> <<>>]
    ELSE IF conf.type[1] = "group"
    THEN [err |-> loaded_devices.err, val |-> loaded_devices.val]
    ELSE [err |-> "none", val |-> <<DeviceClass(conf.type[1]), conf.ip[1]>>]

\* the loop of _load_device_group over the items of a dict of devices: the
\* first error ends it
RECURSIVE LoadDevices(_, _)
LoadDevices(config, done) ==
    IF config = <<>> THEN [err |-> "none", val |-> done]
    ELSE IF LoadEntry(Head(config), [err |-> "none", val |-> <<>>]).err # "none"
    THEN [err |-> LoadEntry(Head(config), [err |-> "none", val |-> <<>>]).err, val |-> <<>>]
    ELSE LoadDevices(Tail(config),
                     Append(done, LoadEntry(Head(config), [err |-> "none", val |-> <<>>]).val))

\* _load_device_group(config_dict) for the dict of a config file
RECURSIVE load_device_group(_, _)
load_device_group(config, done) ==
    IF config = <<>> THEN [err |-> "none", val |-> done]
    ELSE IF LoadEntry(Head(config), LoadDevices(Head(config).devices, <<>>)).err # "none"
    THEN [err |-> LoadEntry(Head(config), LoadDevices(Head(config).devices, <<>>)).err,
          val |-> <<>>]
    ELSE load_device_group(Tail(config),
             Append(done, LoadEntry(Head(config),
                                    LoadDevices(Head(config).devices, <<>>)).val))

\* self._root_device_group after load_config: assigned when
\* _load_device_group has returned
RootAfter_Cleared(root, loaded) ==
    IF loaded.err = "none" THEN <<loaded.val>> ELSE <<>>

RootAfter(root, loaded) ==
    IF loaded.err = "none" THEN <<loaded.val>> ELSE root

\* no config loaded, an empty config file
CfgIdle ==
    cfg = [file |-> <<>>, root |-> <<>>, loaded |-> FALSE,
           last |-> [op |-> "none", err |-> "none"]]

DmIdle ==
    /\ CfgIdle
    /\ dm = [pc |-> "idle", num_retries |-> 0, ii |-> 0, timeout |-> "default",
             schedule |-> <<>>, heard |-> <<>>,
             state_service_dict |-> <<>>, asked |-> <<>>, device_dict |-> <<>>,
             err |-> "none", discovered_device_group |-> <<>>,
             discovered |-> [at |-> "none", result |-> "none"]]

\* ---- the table of message types ----
\* the types and classes the decorators are applied to
DeclTypes == {2, 45, 102}
DeclClasses == {"GetService", "Acknowledgement", "SetColor"}

RegIdle ==
    /\ registry = <<>>
    /\ declared = [first |-> <<>>, message_type |-> 0, cls |-> "", err |-> "none"]

\* ---- the process manager ----
\* the processes of the config: label -> the keyword arguments of Process
Labels == {"ongoing", "immortal", "oneshot", "failure", "keeper"}
ProcessConfig(label) ==
    CASE label = "ongoing"  -> [devices |-> {"lamp"}, ongoing |-> TRUE, immortal |-> FALSE]
      [] label = "immortal" -> [devices |-> {"lamp", "strip"}, ongoing |-> TRUE, immortal |-> TRUE]
      [] label = "oneshot"  -> [devices |-> {"strip"}, ongoing |-> FALSE, immortal |-> FALSE]
      [] label = "failure"  -> [devices |-> {}, ongoing |-> FALSE, immortal |-> FALSE]
      [] label = "keeper"   -> [devices |-> {}, ongoing |-> FALSE, immortal |-> TRUE]

\* Process.__init__: the attributes a process keeps from its config; _proc
\* is 0 for None and else the number of the Popen call that made it, and
\* returncode is <<>> while the child runs
Process(label) ==
    [devices  |-> ProcessConfig(label).devices,
     ongoing  |-> ProcessConfig(label).ongoing,
     immortal |-> IF ProcessConfig(label).ongoing THEN ProcessConfig(label).immortal
                  ELSE FALSE]

NoProc == [proc |-> 0, returncode |-> <<>>]

\* Process.running
running(p) == p.proc # 0 /\ p.returncode = <<>>

PmIdle ==
    pm = [all_processes |-> [label \in Labels |-> NoProc], popens |-> 0,
          last |-> [op |-> "none", label |-> "", kill_immortal |-> FALSE,
                    kill_oneshot |-> FALSE, err |-> "none", failures |-> {},
                    calls |-> 0]]

\* _ThreadPool.__init__: no thread is tracked and the lock is free; no function
\* has been submitted yet
NumThreads == 2
MaxAdds == 4

Funcs == 1..MaxAdds

PoolIdle ==
    tp = [threads |-> <<>>,
          state   |-> [k \in Funcs |-> "none"],
          at_call |-> [k \in Funcs |-> [full |-> FALSE, incomplete |-> FALSE,
                                         ended |-> FALSE]],
          lock    |-> 0,
          adds    |-> 0,
          add     |-> [pc |-> "idle", func |-> 0, uid |-> 0, keys |-> <<>>]]

\* LifxServer waiting in accept: no connection, nothing received or sent
SrvIdle ==
    srv = [pc |-> "idle", text |-> <<>>, sent |-> <<>>, closed |-> FALSE,
           label |-> <<>>, raised |-> "none", uncaught |-> "none",
           client |-> [out |-> "none", value |-> <<>>]]

\* no DeviceGroup has been built and no device made
GrpIdle ==
    grp = [groups |-> <<>>, devs |-> <<>>, nested |-> {}, calls |-> 0,
           last |-> [op |-> "none", group |-> 0, requested |-> 0, set_color |-> <<>>]]

\* no LifxClient has been made
NoPlan == [size |-> 0, sends |-> 0, then |-> "none"]

CliIdle ==
    cli = [pc |-> "new", timeout |-> FALSE, socket |-> FALSE, calls |-> 0,
           plan |-> NoPlan, size |-> 0, packet |-> 0, empty_reads |-> 0,
           out |-> "none"]

\* a LifxTile on which set_colormap has not been called
TILE_WIDTH == 8

Pixels == 0..(TILE_WIDTH * TILE_WIDTH - 1)

TileIdle ==
    tl = [pc |-> "idle", division |-> 0, num_tiles |-> 0, ii |-> 0, jj |-> 0,
          colors_per_tile |-> [p \in Pixels |-> -1],
          writes |-> [p \in Pixels |-> 0],
          sent |-> <<>>, err |-> "none"]

ExtIdle ==
    /\ HeapIdle /\ DmIdle /\ RegIdle /\ PmIdle /\ PoolIdle /\ SrvIdle
    /\ GrpIdle /\ CliIdle /\ TileIdle

NoEnc == [payload |-> NoInst, mac_addr |-> <<>>, res_required |-> 0, ack_required |-> 0,
          sequence |-> 0, source |-> <<>>]

NoDec == [nominal_source |-> <<>>, nominal_sequence |-> <<>>]

CodecIdle ==
    /\ stage = "off"
    /\ enc_in = NoEnc
    /\ enc_out = Packet("none", <<>>, 0)
    /\ wire = <<>>
    /\ dec_args = NoDec
    /\ dec_out = Failed("absent")

NoOp == [op |-> "none", cls |-> "none", name |-> "", value |-> List(<<>>),
         idx |-> <<>>, err |-> "none"]

StructIdle ==
    /\ obj = NoInst
    /\ last = NoOp

CommIdle ==
    /\ pc = "idle"
    /\ call = NoCall
    /\ sent = <<>>
    /\ inbox = <<>>
    /\ nrecv = 0
    /\ result = Pending

Init ==
    /\ chan \in Channels
    /\ ExtIdle
    /\ CommIdle
    /\ CodecIdle
    /\ StructIdle

SendRecv_AlwaysWait(payload, res_required, ack_required, sequence, source, retry_recv) ==
    /\ pc = "idle"
    /\ call' = [payload |-> payload, res_required |-> res_required,
                ack_required |-> ack_required, sequence |-> sequence,
                source |-> source, retry_recv |-> retry_recv]
    /\ nrecv' = 0
    /\ \E packet \in {get_bytes_and_source(payload, chan.mac_addr, res_required,
                                            ack_required, sequence, source)} :
           IF retry_recv # "absent"
           THEN /\ pc' = "raised"
                /\ result' = Raised("TypeError")
                /\ sent' = <<>>
           ELSE IF packet.err # "none"
           THEN /\ pc' = "raised"
                /\ result' = Raised(packet.err)
                /\ sent' = <<>>
           ELSE /\ sent' = <<[bytes |-> packet.bytes, addr |-> <<chan.ip, chan.port>>]>>
                /\ pc' = "recv"
                /\ result' = Pending
    /\ UNCHANGED <<chan, inbox, codecVars, structVars, extVars>>

\* send_recv up to its return or its blocking recvfrom
SendRecv(payload, res_required, ack_required, sequence, source, retry_recv) ==
    /\ pc = "idle"
    /\ call' = [payload |-> payload, res_required |-> res_required,
                ack_required |-> ack_required, sequence |-> sequence,
                source |-> source, retry_recv |-> retry_recv]
    /\ nrecv' = 0
    /\ \E packet \in {get_bytes_and_source(payload, chan.mac_addr, res_required,
                                            ack_required, sequence, source)} :
           IF retry_recv # "absent"
           THEN /\ pc' = "raised"
                /\ result' = Raised("TypeError")
                /\ sent' = <<>>
           ELSE IF packet.err # "none"
           THEN /\ pc' = "raised"
                /\ result' = Raised(packet.err)
                /\ sent' = <<>>
           ELSE /\ sent' = <<[bytes |-> packet.bytes, addr |-> <<chan.ip, chan.port>>]>>
                /\ IF ack_required = 1 \/ res_required = 1
                   THEN /\ pc' = "recv"
                        /\ result' = Pending
                   ELSE /\ pc' = "done"
                        /\ result' = Returned(NoResponse)
    /\ UNCHANGED <<chan, inbox, codecVars, structVars, extVars>>

\* a datagram reaches the socket while the call waits
Deliver(d) ==
    /\ pc = "recv"
    /\ Len(inbox) < MaxInbox
    /\ inbox' = Append(inbox, d)
    /\ UNCHANGED <<chan, pc, call, sent, nrecv, result, codecVars, structVars, extVars>>

\* recvfrom returns the oldest datagram; decode_bytes decides the outcome
Recv ==
    /\ pc = "recv"
    /\ inbox # <<>>
    /\ \E response \in {decode_bytes(Head(inbox), <<SourceOf(call)>>,
                                     <<call.sequence>>)} :
           IF response.err # "none"
           THEN /\ pc' = "raised"
                /\ result' = Raised(response.err)
           ELSE /\ pc' = "done"
                /\ result' = Returned(response)
    /\ inbox' = Tail(inbox)
    /\ nrecv' = nrecv + 1
    /\ UNCHANGED <<chan, call, sent, codecVars, structVars, extVars>>

\* recvfrom raises socket.timeout: only a socket with a timeout does
RecvTimeout ==
    /\ pc = "recv"
    /\ inbox = <<>>
    /\ chan.timeout # <<>>
    /\ pc' = "raised"
    /\ result' = Raised("socket.timeout")
    /\ nrecv' = nrecv + 1
    /\ UNCHANGED <<chan, call, sent, inbox, codecVars, structVars, extVars>>

\* the caller goes on to its next call; unread datagrams stay in the socket
Return ==
    /\ pc \in {"done", "raised"}
    /\ pc' = "idle"
    /\ call' = NoCall
    /\ sent' = <<>>
    /\ nrecv' = 0
    /\ result' = Pending
    /\ UNCHANGED <<chan, inbox, codecVars, structVars, extVars>>

Next ==
    \/ \E payload \in CallPayloads, res_required \in {0, 1}, ack_required \in {0, 1},
          sequence \in SeqNums, source \in Sources, retry_recv \in {"absent", "True"} :
          SendRecv(payload, res_required, ack_required, sequence, source, retry_recv)
    \/ \E d \in Datagrams : Deliver(d)
    \/ Recv
    \/ RecvTimeout
    \/ Return

Spec == Init /\ [][Next]_vars

(***************************************************************************)
(* The codec on drawn inputs: get_bytes_and_source builds a packet         *)
(* (Encode), the bytes may change on the wire (Tamper), and decode_bytes   *)
(* reads them against a nominal source and sequence (Decode).              *)
(***************************************************************************)
Label(b) == [i \in 1..32 |-> PyBytes(b)]

Waveform(cycles) ==
    New("SetWaveform", Kw2("cycles", Scalar(cycles), "period", Scalar(1000)))

\* the payloads drawn: every kind of register, zero-valued and set instances,
\* a value no u16 holds, and a message class without a type
CodecPayloads ==
    { New("Get", NoArgs), New("GetService", NoArgs), New("Acknowledgement", NoArgs),
      Green, New("SetColor", NoArgs),
      New("State", NoArgs),
      New("State", Kw2("label", List(Label(97)), "power", Scalar(65535))),
      Waveform(3), Waveform(16777217),
      New("StateInfrared", Kw1("brightness", Scalar(7))),
      New("SetInfrared", Kw1("brightness", Scalar(70000))),
      New("SetPower", Kw1("level", Bool(1))),
      New("LifxMessage", NoArgs) }

MacAddrs == {<<>>, Mac1}

\* res_required and ack_required as drawn together
Required == {<<0, 0>>, <<1, 0>>, <<0, 1>>}

\* what may happen to the bytes between the two ends
TamperKinds == {"size", "drop", "cut8", "cut30", "source", "sequence", "type",
                "reserved", "trailing"}

SetByte(bs, i, b) == [bs EXCEPT ![i] = b]

\* the first n bytes with the size field set to n
CutTo(bs, n) == <<n>> \o SubSeq(bs, 2, n)

Tampered(kind, bs) ==
    CASE kind = "size"     -> SetByte(bs, 1, (bs[1] + 1) % 256)
      [] kind = "drop"     -> SubSeq(bs, 1, Len(bs) - 1)
      [] kind = "cut8"     -> CutTo(bs, 8)
      [] kind = "cut30"    -> CutTo(bs, 30)
      [] kind = "source"   -> SetByte(bs, 5, (bs[5] + 1) % 256)
      [] kind = "sequence" -> SetByte(bs, 24, (bs[24] + 1) % 256)
      [] kind = "type"     -> SetByte(bs, 34, 3)
      [] kind = "reserved" -> SetByte(SetByte(SetByte(bs, 17, 255), 25, 1), 35, 1)
      [] kind = "trailing" -> SetByte(bs, 1, bs[1] + 1) \o <<170>>

CodecInit ==
    /\ chan = init_from_ip_addr("192.168.1.10", Mac1, <<>>)
    /\ ExtIdle
    /\ CommIdle
    /\ StructIdle
    /\ stage = "idle"
    /\ enc_in = NoEnc
    /\ enc_out = Packet("none", <<>>, 0)
    /\ wire = <<>>
    /\ dec_args = NoDec
    /\ dec_out = Failed("absent")

\* packet_bytes, source = get_bytes_and_source(...)
Encode(payload, mac_addr, res_required, ack_required, sequence, source) ==
    /\ stage = "idle"
    /\ enc_in' = [payload |-> payload, mac_addr |-> mac_addr,
                  res_required |-> res_required, ack_required |-> ack_required,
                  sequence |-> sequence, source |-> source]
    /\ \E packet \in {get_bytes_and_source(payload, mac_addr, res_required,
                                            ack_required, sequence, source)} :
           /\ enc_out' = packet
           /\ wire' = packet.bytes
           /\ stage' = IF packet.err = "none" THEN "encoded" ELSE "failed"
    /\ UNCHANGED <<dec_args, dec_out, commVars, structVars, extVars>>

\* the bytes that arrive are not the bytes that were sent
Tamper(kind) ==
    /\ stage = "encoded"
    /\ wire = enc_out.bytes
    /\ wire' = Tampered(kind, wire)
    /\ UNCHANGED <<stage, enc_in, enc_out, dec_args, dec_out, commVars, structVars, extVars>>

\* decode_bytes(wire, nominal_source, nominal_sequence)
Decode(nominal_source, nominal_sequence) ==
    /\ stage = "encoded"
    /\ dec_args' = [nominal_source |-> nominal_source,
                    nominal_sequence |-> nominal_sequence]
    /\ dec_out' = decode_bytes(wire, nominal_source, nominal_sequence)
    /\ stage' = "decoded"
    /\ UNCHANGED <<enc_in, enc_out, wire, commVars, structVars, extVars>>

CodecNext ==
    \/ \E payload \in CodecPayloads, mac_addr \in MacAddrs, req \in Required,
          sequence \in SeqNums, source \in Sources :
          Encode(payload, mac_addr, req[1], req[2], sequence, source)
    \/ \E kind \in TamperKinds : Tamper(kind)
    \/ \E nominal_source \in {<<>>, <<enc_out.source>>, <<99>>},
          nominal_sequence \in {<<>>, <<enc_in.sequence>>, <<77>>} :
          Decode(nominal_source, nominal_sequence)

CodecSpec == CodecInit /\ [][CodecNext]_vars

(***************************************************************************)
(* One struct instance under constructions, writes and decodes: obj is the *)
(* instance (the last one built), last the operation that was called last  *)
(* and the exception it raised.                                            *)
(***************************************************************************)
StructClasses == {"Frame", "FrameAddress", "ProtocolHeader", "SetColor", "State"}

\* the values a caller passes: a number and lists of one, three and six
SetValues ==
    { Scalar(7), List(<<7>>), List(<<1, 2, 3>>), List(<<1, 2, 3, 4, 5, 6>>) }

Indexes == {<<>>, <<2>>}

\* keyword arguments of the constructors: none, or values for the pinned and
\* the reserved registers of the class
ConstructorArgs(cls) ==
    {NoArgs} \cup
    CASE cls = "Frame" ->
           { Kw2("protocol", List(<<1, 2, 3>>), "origin", Scalar(7)),
             Kw2("addressable", Bool(0), "size", Scalar(7)) }
      [] cls = "FrameAddress" ->
           { Kw2("reserved_1", Scalar(5), "reserved_2", List(<<1, 2>>)) }
      [] cls = "ProtocolHeader" ->
           { Kw2("reserved_1", Scalar(7), "type", Scalar(102)) }
      [] cls = "SetColor" ->
           { Kw2("reserved", List(<<1, 2, 3>>), "duration", Scalar(7)) }
      [] cls = "State" ->
           { Kw2("reserved_1", Scalar(7), "reserved_2", List(<<1, 2, 3>>)) }

\* the widths in bytes of the numbers a class reads from its bytes
Widths(cls) ==
    CASE cls = "Frame"          -> <<2, 2, 4>>
      [] cls = "FrameAddress"   -> [i \in 1..16 |-> 1]
      [] cls = "ProtocolHeader" -> <<8, 2, 2>>
      [] cls = "SetColor"       -> <<1, 2, 2, 2, 2, 4>>
      [] cls = "State"          -> <<2, 2, 2, 2, 2, 2>> \o [i \in 1..32 |-> 1] \o <<8>>

\* byte strings to decode: every number of the class has its two low bytes
\* set to b (so it stays below 2^31)
RECURSIVE Pattern(_, _)
Pattern(ws, b) ==
    IF ws = <<>> THEN <<>>
    ELSE [j \in 1..Head(ws) |-> IF j <= 2 THEN b ELSE 0] \o Pattern(Tail(ws), b)

\* zeros, a value every register takes (12, 3084 as u16) and all bits set,
\* each also one byte short
DecodeInputs(cls) ==
    { Pattern(Widths(cls), b) : b \in {0, 12, 255} }
    \cup { SubSeq(Pattern(Widths(cls), b), 1, SizeBytes(cls) - 1) : b \in {12} }

StructInit ==
    /\ chan = init_from_ip_addr("192.168.1.10", Mac1, <<>>)
    /\ ExtIdle
    /\ CommIdle
    /\ CodecIdle
    /\ StructIdle

\* obj = cls(kwargs)
Construct(cls, kwargs) ==
    /\ \E r \in {LifxStruct_init(cls, kwargs)} :
           /\ obj' = IF r.err = "none" THEN r.inst ELSE obj
           /\ last' = [op |-> "init", cls |-> cls, name |-> "", value |-> List(<<>>),
                       idx |-> <<>>, err |-> r.err]
    /\ UNCHANGED <<commVars, codecVars, extVars>>

\* obj.set_value(name, value, idx), obj[name] = value when idx is None
SetOp(name, value, idx) ==
    /\ obj # NoInst
    /\ \E r \in {SetValue(obj, name, value, idx)} :
           /\ obj' = r.inst
           /\ last' = [op |-> "set", cls |-> obj.cls, name |-> name, value |-> value,
                       idx |-> idx, err |-> r.err]
    /\ UNCHANGED <<commVars, codecVars, extVars>>

\* obj = cls.from_bytes(message_bytes)
DecodeOp(cls, message_bytes) ==
    /\ \E r \in {FromBytes(cls, message_bytes)} :
           /\ obj' = IF r.err = "none" THEN r.inst ELSE obj
           /\ last' = [op |-> "from_bytes", cls |-> cls, name |-> "",
                       value |-> List(message_bytes), idx |-> <<>>, err |-> r.err]
    /\ UNCHANGED <<commVars, codecVars, extVars>>

\* the names a caller writes to: the registers of obj and a name it has not
SetNames == IF obj = NoInst THEN {} ELSE RegNames(obj.cls) \cup {"colour"}

StructNext ==
    \/ \E cls \in StructClasses : \E kwargs \in ConstructorArgs(cls) :
          Construct(cls, kwargs)
    \/ \E name \in SetNames, value \in SetValues,
          idx \in Indexes :
          SetOp(name, value, idx)
    \/ \E cls \in StructClasses : \E message_bytes \in DecodeInputs(cls) :
          DecodeOp(cls, message_bytes)

StructSpec == StructInit /\ [][StructNext]_vars

(***************************************************************************)
(* Writes at the bound of a register: the largest value the width of the   *)
(* register holds and the value one above it, through the constructor and  *)
(* through set_value, as a number or as the list of an array register.     *)
(***************************************************************************)
BoundClasses == {"Frame", "FrameAddress", "ProtocolHeader", "Hsbk", "StateInfrared"}

\* the unsigned registers whose stored value is the caller's: not pinned by
\* Frame.set_value, not reserved, not range-checked by an override (kelvin);
\* up to 16 bits wide
BoundNames(cls) ==
    { reg.name : reg \in { r \in Range(Registers(cls)) :
                             /\ r.type \in {"u2", "u6", "u8", "u12", "u16"}
                             /\ ~IsReserved(r.name)
                             /\ ~(cls = "Frame" /\ r.name \in {"protocol", "origin"})
                             /\ ~(cls = "Hsbk" /\ r.name = "kelvin") } }

\* the value to write: over = 0 the largest value of the width, over = 1 the
\* next one, 2^bit_width; an array register takes a list with it in slot i
BoundValue(reg, over, i) ==
    IF reg.len = 1 THEN Scalar(Pow2(LifxTypeBits(reg.type)) - 1 + over)
    ELSE List([j \in 1..reg.len |->
                 IF j = i THEN Pow2(LifxTypeBits(reg.type)) - 1 + over ELSE 0])

\* obj = cls(name=value)
ConstructWith(cls, name, value) ==
    /\ \E r \in {LifxStruct_init(cls, Kw1(name, value))} :
           /\ obj' = IF r.err = "none" THEN r.inst ELSE obj
           /\ last' = [op |-> "init", cls |-> cls, name |-> name, value |-> value,
                       idx |-> <<>>, err |-> r.err]
    /\ UNCHANGED <<commVars, codecVars, extVars>>

\* obj.to_bytes()
ToBytesOp ==
    /\ obj # NoInst
    /\ last.op # "to_bytes"
    /\ last' = [op |-> "to_bytes", cls |-> obj.cls, name |-> "",
                value |-> List(<<>>), idx |-> <<>>, err |-> ToBytes(obj).err]
    /\ UNCHANGED <<obj, commVars, codecVars, extVars>>

BoundNext ==
    \/ \E cls \in BoundClasses : Construct(cls, NoArgs)
    \/ \E cls \in BoundClasses : \E name \in BoundNames(cls) :
          \E over \in {0, 1}, i \in {1, 2} :
             ConstructWith(cls, name, BoundValue(RegOf(cls, name), over, i))
    \/ \E name \in (IF obj = NoInst THEN {} ELSE BoundNames(obj.cls)) :
          \E over \in {0, 1}, i \in {1, 2} :
             SetOp(name, BoundValue(RegOf(obj.cls, name), over, i), <<>>)
    \/ ToBytesOp

BoundSpec == StructInit /\ [][BoundNext]_vars

(***************************************************************************)
(* Hsbk under constructions, writes and decodes with kelvin values inside  *)
(* and outside of 2500..9000, alone and as the color of a SetColor.        *)
(***************************************************************************)
Kelvins == {-1, 0, 1, 2499, 2500, 3500, 9000, 9001, 65535}

\* the eight bytes of an Hsbk with the hue and the kelvin given
HsbkBytes(h, k) == LEBytes(h, 2) \o <<0, 0, 0, 0>> \o LEBytes(k, 2)

\* the bytes of a SetColor whose color has the kelvin given
SetColorBytes(k) == <<0>> \o HsbkBytes(21845, k) \o <<0, 4, 0, 0>>

HsbkNext ==
    \/ Construct("Hsbk", NoArgs)
    \/ \E k \in Kelvins : \E value \in {Scalar(k), List(<<k>>)} :
          ConstructWith("Hsbk", "kelvin", value)
    \/ \E name \in {"kelvin", "hue"}, k \in Kelvins :
          \E value \in {Scalar(k), List(<<k>>), List(<<k, k>>)} :
             SetOp(name, value, <<>>)
    \/ \E h \in {0, 21845}, k \in Kelvins \ {-1} : DecodeOp("Hsbk", HsbkBytes(h, k))
    \/ \E k \in Kelvins \ {-1} : DecodeOp("SetColor", SetColorBytes(k))

HsbkSpec == StructInit /\ [][HsbkNext]_vars

(***************************************************************************)
(* Messages with a nested register.  The registers table of the class      *)
(* holds one Hsbk() instance; __init__ takes [that instance] * count as    *)
(* the default of the register, so a message built without a color holds   *)
(* a reference to the instance of the table.  get_value returns the        *)
(* object, and a write to it changes the object every holder sees.         *)
(***************************************************************************)
MaxMsgs == 2
MaxHeap == 3

\* the address of a new object
Alloc == Len(heap) + 1

\* msg = cls()
NewMessage(cls) ==
    /\ Len(msgs) < MaxMsgs
    /\ msgs' = Append(msgs, [cls |-> cls, color |-> ProtoAddr(cls)])
    /\ last' = [op |-> "init", cls |-> cls, name |-> "", value |-> List(<<>>),
                idx |-> <<>>, err |-> "none"]
    /\ UNCHANGED <<heap, obj, commVars, codecVars, appVars>>

\* msg = cls(color=Hsbk(hue=h))
NewMessageWith(cls, h) ==
    /\ Len(msgs) < MaxMsgs /\ Len(heap) < MaxHeap
    /\ heap' = Append(heap, HsbkOf(h, 0, 0, 0))
    /\ msgs' = Append(msgs, [cls |-> cls, color |-> Alloc])
    /\ last' = [op |-> "init", cls |-> cls, name |-> "color", value |-> Scalar(h),
                idx |-> <<>>, err |-> "none"]
    /\ UNCHANGED <<obj, commVars, codecVars, appVars>>

\* msgs[i]["color"] = Hsbk(hue=h)
AssignNested(i, h) ==
    /\ i \in 1..Len(msgs) /\ Len(heap) < MaxHeap
    /\ heap' = Append(heap, HsbkOf(h, 0, 0, 0))
    /\ msgs' = [msgs EXCEPT ![i].color = Alloc]
    /\ last' = [op |-> "set", cls |-> msgs[i].cls, name |-> "color",
                value |-> Scalar(h), idx |-> <<i>>, err |-> "none"]
    /\ UNCHANGED <<obj, commVars, codecVars, appVars>>

\* msgs[i]["color"][name] = v
WriteNested(i, name, v) ==
    /\ i \in 1..Len(msgs)
    /\ \E r \in {Hsbk_set_value(heap[msgs[i].color], name, Scalar(v))} :
           /\ heap' = [heap EXCEPT ![msgs[i].color] = r.inst]
           /\ last' = [op |-> "set", cls |-> "Hsbk", name |-> name,
                       value |-> Scalar(v), idx |-> <<i>>, err |-> r.err]
    /\ UNCHANGED <<msgs, obj, commVars, codecVars, appVars>>

HeapNext ==
    \/ \E cls \in NestedClasses : NewMessage(cls)
    \/ \E cls \in NestedClasses, h \in {7} : NewMessageWith(cls, h)
    \/ \E i \in 1..MaxMsgs, h \in {7} : AssignNested(i, h)
    \/ \E i \in 1..MaxMsgs, name \in {"hue"}, v \in {0, 5} :
          WriteNested(i, name, v)

HeapSpec == StructInit /\ [][HeapNext]_vars

(***************************************************************************)
(* DeviceManager.discover.  The broadcast iterations and the queries to    *)
(* the devices found are steps of their own, since each waits for the      *)
(* network: the replies to a broadcast and the outcome of the queries to   *)
(* a device are inputs.  dm.heard keeps, for every IP that replied, the    *)
(* port of its latest reply and the number of its replies; dm.timeout is   *)
(* the timeout of the channel, "None" or "default" for the timeout the     *)
(* manager was made with, and dm.schedule the timeout each broadcast was   *)
(* made under.                                                             *)
(***************************************************************************)
NumRetries == 2
MaxReplies == 2
Ips == {"10.0.0.1", "10.0.0.2"}
Ports == {56700, 56701}
DeviceLabels == {"Lamp", "Desk"}

StateServices == [addr : Ips, port : Ports]
SearchResponses == UNION { [1..n -> StateServices] : n \in 0..MaxReplies }

RECURSIVE Hear(_, _)
Hear(heard, search_responses) ==
    IF search_responses = <<>> THEN heard
    ELSE Hear(DictSet(heard, Head(search_responses).addr,
                      [port |-> Head(search_responses).port,
                       n    |-> IF DictHas(heard, Head(search_responses).addr)
                                THEN DictGet(heard, Head(search_responses).addr).n + 1
                                ELSE 1]),
              Tail(search_responses))

\* the timeout of the channel during iteration ii of the loop, current
\* being the timeout before it
IterationTimeout_NotFirst(ii, num_retries, current) ==
    IF ii + 1 = num_retries /\ ii > 0 THEN "default" ELSE current

IterationTimeout(ii, num_retries, current) ==
    IF ii + 1 = num_retries THEN "default" ELSE current

\* discover(num_retries) up to its first broadcast; without iterations, up
\* to the first query
Discover(num_retries) ==
    /\ dm.pc = "idle"
    /\ dm' = [dm EXCEPT !.pc = IF num_retries = 0 THEN "query" ELSE "scan",
                        !.num_retries = num_retries,
                        !.timeout = "None",
                        !.discovered = [at |-> "none", result |-> "none"]]
    /\ UNCHANGED <<cfg, devVars, commVars, codecVars, structVars, heapVars, regVars, pmVars, srvVars>>

\* one iteration of the loop over range(num_retries), and the code between
\* the loops after the last one
GetDevicesOnNetwork(search_responses) ==
    /\ dm.pc = "scan"
    /\ dm.ii < dm.num_retries
    /\ dm' = [dm EXCEPT
                !.ii = dm.ii + 1,
                !.schedule = Append(@, IterationTimeout(dm.ii, dm.num_retries, dm.timeout)),
                !.timeout = IF dm.ii + 1 = dm.num_retries THEN "None"
                            ELSE IterationTimeout(dm.ii, dm.num_retries, dm.timeout),
                !.heard = Hear(dm.heard, search_responses),
                !.state_service_dict = StoreResponses(dm.state_service_dict, search_responses),
                !.pc = IF dm.ii + 1 = dm.num_retries THEN "query" ELSE "scan"]
    /\ UNCHANGED <<cfg, devVars, commVars, codecVars, structVars, heapVars, regVars, pmVars, srvVars>>

\* one iteration of the loop over state_service_dict.items(): label is the
\* label GetLabel returned and product_id the product GetVersion returned,
\* "NoResponsesError" and 0 when no reply came; -1 when GetVersion was not
\* sent
QueryDevice(ip, state_service, label, product_id) ==
    /\ dm.pc = "query"
    /\ Len(dm.asked) < Len(dm.state_service_dict)
    /\ ip = dm.state_service_dict[Len(dm.asked) + 1].key
    /\ state_service = dm.state_service_dict[Len(dm.asked) + 1].val
    /\ IF label = "NoResponsesError"
       THEN dm' = [dm EXCEPT !.asked = Append(@, [ip |-> ip, port |-> state_service.port,
                                                   label |-> label, product_id |-> -1])]
       ELSE IF product_id = 0
       THEN dm' = [dm EXCEPT !.asked = Append(@, [ip |-> ip, port |-> state_service.port,
                                                   label |-> label, product_id |-> 0])]
       ELSE IF get_product_info(product_id).err # "none"
       THEN dm' = [dm EXCEPT !.asked = Append(@, [ip |-> ip, port |-> state_service.port,
                                                   label |-> label, product_id |-> product_id]),
                             !.pc = "raised",
                             !.err = get_product_info(product_id).err]
       ELSE dm' = [dm EXCEPT !.asked = Append(@, [ip |-> ip, port |-> state_service.port,
                                                   label |-> label, product_id |-> product_id]),
                             !.device_dict =
                                 DictSet(@, label,
                                         [ip |-> ip, port |-> state_service.port,
                                          label |-> label,
                                          product_name |-> get_product_info(product_id).product.name,
                                          class |-> get_product_info(product_id).class])]
    /\ UNCHANGED <<cfg, devVars, commVars, codecVars, structVars, heapVars, regVars, pmVars, srvVars>>

\* return device_dict
DiscoverReturn ==
    /\ dm.pc = "query"
    /\ Len(dm.asked) = Len(dm.state_service_dict)
    /\ dm' = [dm EXCEPT !.pc = "done"]
    /\ UNCHANGED <<cfg, devVars, commVars, codecVars, structVars, heapVars, regVars, pmVars, srvVars>>

\* the property DeviceManager.discovered, read before discover or after it
\* has returned; dm.discovered is the last read since the last call
discovered ==
    /\ dm.pc \in {"idle", "done"}
    /\ dm.discovered.at # dm.pc
    /\ dm' = [dm EXCEPT !.discovered =
                 [at |-> dm.pc,
                  result |-> IF dm.discovered_device_group = <<>>
                             THEN "DeviceDiscoveryError" ELSE "DeviceGroup"]]
    /\ UNCHANGED <<cfg, devVars, commVars, codecVars, structVars, heapVars, regVars, pmVars, srvVars>>

DiscoverNext ==
    \/ \E num_retries \in 0..NumRetries : Discover(num_retries)
    \/ \E search_responses \in SearchResponses : GetDevicesOnNetwork(search_responses)
    \/ \E ip \in Ips, state_service \in StateServices,
          label \in DeviceLabels \cup {"NoResponsesError"},
          product_id \in ProductIds \cup {UnknownProduct, 0} :
          QueryDevice(ip, state_service, label, product_id)
    \/ DiscoverReturn
    \/ discovered

DiscoverSpec == StructInit /\ [][DiscoverNext]_vars

(***************************************************************************)
(* The table of message types while modules are loaded: each class        *)
(* statement under @set_message_type(message_type) runs the decorator,     *)
(* which stores the class under the type.  declared.first keeps the class  *)
(* a type was declared with first.                                         *)
(***************************************************************************)
set_message_type(message_type, cls) ==
    /\ registry' = DictSet(registry, message_type, cls)
    /\ declared' = [first |-> IF DictHas(declared.first, message_type)
                              THEN declared.first
                              ELSE DictSet(declared.first, message_type, cls),
                    message_type |-> message_type, cls |-> cls, err |-> "none"]
    /\ UNCHANGED <<devVars, commVars, codecVars, structVars, heapVars, dmVars, pmVars, srvVars>>

RegistryNext ==
    \E message_type \in DeclTypes, cls \in DeclClasses : set_message_type(message_type, cls)

RegistrySpec == StructInit /\ [][RegistryNext]_vars

(***************************************************************************)
(* The process manager.  A child made by Popen runs until it exits by      *)
(* itself (ChildExit) or is killed; poll() is its returncode, None while   *)
(* it runs.  Every call of the manager is one step.                        *)
(***************************************************************************)
MaxPopen == 3
ExitCodes == {0, 1}

\* Process.stop
Process_stop_KeepHandle(p) ==
    IF p.proc = 0 THEN p ELSE [proc |-> p.proc, returncode |-> <<-9>>]

Process_stop(p) == IF p.proc = 0 THEN p ELSE NoProc

\* Process.kill
Process_kill(p) == IF running(p) THEN [p EXCEPT !.returncode = <<-9>>] ELSE p

\* Process.check_failure: the process after the call, and whether a
\* CompletedProcess with a returncode other than 0 is returned
Process_check_failure_KeepHandle(p) ==
    IF p.proc = 0 THEN [p |-> p, failed |-> FALSE]
    ELSE IF p.returncode = <<>> THEN [p |-> p, failed |-> FALSE]
    ELSE [p |-> p, failed |-> p.returncode[1] # 0]

Process_check_failure(p) ==
    IF p.proc = 0 THEN [p |-> p, failed |-> FALSE]
    ELSE IF p.returncode = <<>> THEN [p |-> p, failed |-> FALSE]
    ELSE [p |-> NoProc, failed |-> p.returncode[1] # 0]

\* Process.start, the child being the one of Popen call number n
Process_start_Again(label, p, n) ==
    [err |-> "none", p |-> [proc |-> n, returncode |-> <<>>]]

Process_start(label, p, n) ==
    IF p.proc # 0 /\ Process(label).ongoing /\ p.returncode = <<>>
    THEN [err |-> "ProcessRunningError", p |-> p]
    ELSE [err |-> "none", p |-> [proc |-> n, returncode |-> <<>>]]

\* ProcessManager.start: all_devices, the devices of the running processes
\* other than label
all_devices_OfOngoing(all_processes, label) ==
    UNION { Process(plabel).devices :
              plabel \in { l \in Labels \ {label} :
                             running(all_processes[l]) /\ Process(l).ongoing } }

all_devices(all_processes, label) ==
    UNION { Process(plabel).devices :
              plabel \in { l \in Labels \ {label} : running(all_processes[l]) } }

\* ProcessManager.start on the table all_processes
ManagerStart(all_processes, label, n) ==
    IF Process(label).devices \cap all_devices(all_processes, label) # {}
    THEN [err |-> "DeviceConflictError", all_processes |-> all_processes, popens |-> n - 1]
    ELSE [err |-> Process_start(label, all_processes[label], n).err,
          all_processes |-> [all_processes EXCEPT
                                ![label] = Process_start(label, all_processes[label], n).p],
          popens |-> IF Process_start(label, all_processes[label], n).err = "none"
                     THEN n ELSE n - 1]

\* the call made last: its arguments and outcome; calls flips with every call
Called(op, label, kill_immortal, err, failures) ==
    [op |-> op, label |-> label, kill_immortal |-> kill_immortal,
     kill_oneshot |-> FALSE, err |-> err, failures |-> failures,
     calls |-> 1 - pm.last.calls]

ProcessManager_start(label) ==
    /\ pm.popens < MaxPopen
    /\ \E r \in {ManagerStart(pm.all_processes, label, pm.popens + 1)} :
          pm' = [all_processes |-> r.all_processes, popens |-> r.popens,
                 last |-> Called("start", label, FALSE, r.err, {})]
    /\ UNCHANGED <<devVars, commVars, codecVars, structVars, heapVars, dmVars, regVars, srvVars>>

ProcessManager_stop(label) ==
    /\ pm' = [pm EXCEPT !.all_processes[label] = Process_stop(@),
                        !.last = Called("stop", label, FALSE, "none", {})]
    /\ UNCHANGED <<devVars, commVars, codecVars, structVars, heapVars, dmVars, regVars, srvVars>>

ProcessManager_restart(label) ==
    /\ pm.popens < MaxPopen
    /\ \E r \in {ManagerStart([pm.all_processes EXCEPT ![label] = Process_stop(@)],
                              label, pm.popens + 1)} :
          pm' = [all_processes |-> r.all_processes, popens |-> r.popens,
                 last |-> Called("restart", label, FALSE, r.err, {})]
    /\ UNCHANGED <<devVars, commVars, codecVars, structVars, heapVars, dmVars, regVars, srvVars>>

ProcessManager_killall(kill_immortal) ==
    /\ pm' = [pm EXCEPT
                !.all_processes =
                    [label \in Labels |->
                        IF kill_immortal \/ ~Process(label).immortal
                        THEN Process_stop(pm.all_processes[label])
                        ELSE pm.all_processes[label]],
                !.last = Called("killall", "", kill_immortal, "none", {})]
    /\ UNCHANGED <<devVars, commVars, codecVars, structVars, heapVars, dmVars, regVars, srvVars>>

\* the process of a label after its turn in the loop of check_failures
Checked(label, kill_oneshot) ==
    Process_check_failure(IF ~Process(label).ongoing /\ kill_oneshot
                          THEN Process_kill(pm.all_processes[label])
                          ELSE pm.all_processes[label])

ProcessManager_check_failures(kill_oneshot) ==
    /\ pm' = [pm EXCEPT
                !.all_processes = [label \in Labels |-> Checked(label, kill_oneshot).p],
                !.last = [Called("check_failures", "", FALSE, "none",
                                 { label \in Labels : Checked(label, kill_oneshot).failed })
                             EXCEPT !.kill_oneshot = kill_oneshot]]
    /\ UNCHANGED <<devVars, commVars, codecVars, structVars, heapVars, dmVars, regVars, srvVars>>

\* a running child exits by itself
ChildExit(label, returncode) ==
    /\ running(pm.all_processes[label])
    /\ pm' = [pm EXCEPT !.all_processes[label].returncode = <<returncode>>]
    /\ UNCHANGED <<devVars, commVars, codecVars, structVars, heapVars, dmVars, regVars, srvVars>>

ProcessNext ==
    \/ \E label \in Labels : ProcessManager_start(label)
    \/ \E label \in Labels : ProcessManager_stop(label)
    \/ \E label \in Labels : ProcessManager_restart(label)
    \/ \E kill_immortal \in BOOLEAN : ProcessManager_killall(kill_immortal)
    \/ \E kill_oneshot \in BOOLEAN : ProcessManager_check_failures(kill_oneshot)
    \/ \E label \in Labels, returncode \in ExitCodes : ChildExit(label, returncode)

ProcessSpec == StructInit /\ [][ProcessNext]_vars

(***************************************************************************)
(* The flags byte of the frame address: frame addresses built with every   *)
(* pair of flags and encoded, and 16-byte inputs with every value of the   *)
(* flags byte decoded.                                                     *)
(***************************************************************************)
FlagSequences == {7}

\* 16 bytes of a frame address with the flags byte and the sequence given
FlagBytes(flags, sequence) ==
    [i \in 1..16 |-> IF i = 15 THEN flags ELSE IF i = 16 THEN sequence ELSE 0]

\* obj = FrameAddress(res_required=..., ack_required=..., sequence=...);
\* obj.to_bytes()
PackFlags(res_required, ack_required, sequence) ==
    /\ \E r \in {LifxStruct_init("FrameAddress",
                    [n \in {"res_required", "ack_required", "sequence"} |->
                        IF n = "res_required" THEN Bool(res_required)
                        ELSE IF n = "ack_required" THEN Bool(ack_required)
                        ELSE Scalar(sequence)])} :
          /\ r.err = "none"
          /\ obj' = r.inst
          /\ last' = [op |-> "to_bytes", cls |-> "FrameAddress", name |-> "",
                      value |-> List(ToBytes(r.inst).bytes), idx |-> <<>>,
                      err |-> ToBytes(r.inst).err]
    /\ UNCHANGED <<commVars, codecVars, extVars>>

FlagNext ==
    \/ \E res_required \in {0, 1}, ack_required \in {0, 1}, sequence \in FlagSequences :
          PackFlags(res_required, ack_required, sequence)
    \/ \E flags \in 0..255, sequence \in FlagSequences :
          DecodeOp("FrameAddress", FlagBytes(flags, sequence))

FlagSpec == StructInit /\ [][FlagNext]_vars

(***************************************************************************)
(* The device config.  cfg.file is the config file, the list of its        *)
(* entries, which is edited between the calls of the manager; cfg.root is  *)
(* _root_device_group, <<>> for None, and cfg.loaded tells whether a       *)
(* load_config has ever returned.                                          *)
(***************************************************************************)
MaxEntries == 2

\* the entries of a config: devices with and without a type and an IP, and
\* groups without devices or with one such device
TypeNames == {<<>>, <<"light">>, <<"lamp">>}
IpValues == {<<>>, <<"10.0.0.1">>}
DeviceConfs == [type : TypeNames, ip : IpValues, devices : {<<>>}]
GroupConfs ==
    [type : {<<"group">>}, ip : {<<>>},
     devices : {<<>>} \cup { <<conf>> : conf \in DeviceConfs }]

\* the config file gets one more entry
AppendEntry(conf) ==
    /\ Len(cfg.file) < MaxEntries
    /\ cfg' = [cfg EXCEPT !.file = Append(@, conf)]
    /\ UNCHANGED <<dm, devVars, commVars, codecVars, structVars, heapVars, regVars, pmVars, srvVars>>

\* the config file is emptied
ClearFile ==
    /\ cfg.file # <<>>
    /\ cfg' = [cfg EXCEPT !.file = <<>>]
    /\ UNCHANGED <<dm, devVars, commVars, codecVars, structVars, heapVars, regVars, pmVars, srvVars>>

\* DeviceManager.load_config(config_path)
load_config ==
    /\ \E loaded \in {load_device_group(cfg.file, <<>>)} :
          cfg' = [cfg EXCEPT !.root = RootAfter(cfg.root, loaded),
                             !.loaded = cfg.loaded \/ loaded.err = "none",
                             !.last = [op |-> "load_config", err |-> loaded.err]]
    /\ UNCHANGED <<dm, devVars, commVars, codecVars, structVars, heapVars, regVars, pmVars, srvVars>>

\* DeviceManager.get_all_devices(), one of the methods under
\* _require_config_loaded
get_all_devices ==
    /\ cfg' = [cfg EXCEPT !.last = [op |-> "get_all_devices",
                                    err |-> IF cfg.root = <<>> THEN "DeviceConfigError"
                                            ELSE "none"]]
    /\ UNCHANGED <<dm, devVars, commVars, codecVars, structVars, heapVars, regVars, pmVars, srvVars>>

ConfigNext ==
    \/ \E conf \in DeviceConfs \cup GroupConfs : AppendEntry(conf)
    \/ ClearFile
    \/ load_config
    \/ get_all_devices

ConfigSpec == StructInit /\ [][ConfigNext]_vars

(***************************************************************************)
(* The server's thread pool: _ThreadRunner and _ThreadPool                 *)
(***************************************************************************)

\* random.randint(0, (1 << 32) - 1): one more value than the pool has slots,
\* so that a value that is not a key of _threads always exists
Uids == 0..NumThreads

DictKeys(d) == [i \in 1..Len(d) |-> d[i].key]

\* dict.pop(key)
DictPop(d, key) == SelectSeq(d, LAMBDA e : e.key # key)

\* with self._lock: the thread enters when no other thread holds the lock
LockFree_Always(lock) == TRUE

LockFree(lock) == lock = 0

\* _ThreadPool.add up to the loop: a uid that is no key of _threads; with a
\* free slot the thread is created at once under that uid
add(uid) ==
    /\ tp.add.pc = "idle"
    /\ tp.adds < MaxAdds
    /\ ~DictHas(tp.threads, uid)
    /\ \E func \in {tp.adds + 1} :
       \E at \in {[full |-> Len(tp.threads) = NumThreads,
                   incomplete |-> \E i \in 1..Len(tp.threads) :
                                     tp.state[tp.threads[i].val] # "complete",
                   ended |-> \A i \in 1..Len(tp.threads) :
                                tp.state[tp.threads[i].val] \in {"raised", "complete"}]} :
         IF Len(tp.threads) = NumThreads
         THEN tp' = [tp EXCEPT !.adds = func,
                               !.at_call[func] = at,
                               !.add = [pc |-> "sweep", func |-> func, uid |-> uid,
                                        keys |-> DictKeys(tp.threads)]]
         ELSE tp' = [tp EXCEPT !.adds = func,
                               !.at_call[func] = at,
                               !.threads = DictSet(tp.threads, uid, func),
                               !.state[func] = "waiting"]
    /\ UNCHANGED <<srv, devVars, commVars, codecVars, structVars, heapVars, dmVars, regVars,
                   pmVars>>

\* one iteration of "for uid in list(self._threads.keys())": the loop variable
\* is the uid of add; a complete thread is popped and joined
add_sweep ==
    /\ tp.add.pc = "sweep"
    /\ tp.add.keys # <<>>
    /\ \E uid \in {Head(tp.add.keys)} :
         tp' = [tp EXCEPT !.add.uid = uid,
                          !.add.keys = Tail(tp.add.keys),
                          !.threads = IF tp.state[DictGet(tp.threads, uid)] = "complete"
                                      THEN DictPop(tp.threads, uid)
                                      ELSE tp.threads]
    /\ UNCHANGED <<srv, devVars, commVars, codecVars, structVars, heapVars, dmVars, regVars,
                   pmVars>>

\* after the loop: the thread is created when a slot is free, under the uid
\* the loop left; otherwise the function is not run
add_finish ==
    /\ tp.add.pc = "sweep"
    /\ tp.add.keys = <<>>
    /\ IF Len(tp.threads) # NumThreads
       THEN tp' = [tp EXCEPT !.threads = DictSet(tp.threads, tp.add.uid, tp.add.func),
                             !.state[tp.add.func] = "waiting",
                             !.add = [pc |-> "idle", func |-> 0, uid |-> 0, keys |-> <<>>]]
       ELSE tp' = [tp EXCEPT !.state[tp.add.func] = "dropped",
                             !.add = [pc |-> "idle", func |-> 0, uid |-> 0, keys |-> <<>>]]
    /\ UNCHANGED <<srv, devVars, commVars, codecVars, structVars, heapVars, dmVars, regVars,
                   pmVars>>

\* _ThreadRunner._run: the thread takes the pool's lock and calls the function
ThreadRunner_enter(k) ==
    /\ tp.state[k] = "waiting"
    /\ LockFree(tp.lock)
    /\ tp' = [tp EXCEPT !.state[k] = "running", !.lock = k]
    /\ UNCHANGED <<srv, devVars, commVars, codecVars, structVars, heapVars, dmVars, regVars,
                   pmVars>>

\* _ThreadRunner._run: the function returns or raises and the with block
\* releases the lock; a thread whose function raised ends without being complete
ThreadRunner_leave(k, raised) ==
    /\ tp.state[k] = "running"
    /\ tp' = [tp EXCEPT !.state[k] = IF raised THEN "raised" ELSE "returned",
                        !.lock = IF tp.lock = k THEN 0 ELSE tp.lock]
    /\ UNCHANGED <<srv, devVars, commVars, codecVars, structVars, heapVars, dmVars, regVars,
                   pmVars>>

\* _ThreadRunner._run: self.complete = True
ThreadRunner_complete(k) ==
    /\ tp.state[k] = "returned"
    /\ tp' = [tp EXCEPT !.state[k] = "complete"]
    /\ UNCHANGED <<srv, devVars, commVars, codecVars, structVars, heapVars, dmVars, regVars,
                   pmVars>>

\* _ThreadPool.close up to its loop: the keys of the tracked threads
close ==
    /\ tp.add.pc = "idle"
    /\ tp' = [tp EXCEPT !.add = [pc |-> "closing", func |-> 0, uid |-> 0,
                                 keys |-> DictKeys(tp.threads)]]
    /\ UNCHANGED <<srv, devVars, commVars, codecVars, structVars, heapVars, dmVars, regVars,
                   pmVars>>

\* one iteration of the loop of close: the thread is popped and joined, which
\* returns when the thread has ended; after the last one close returns
close_join ==
    /\ tp.add.pc = "closing"
    /\ IF tp.add.keys = <<>>
       THEN tp' = [tp EXCEPT !.add.pc = "closed"]
       ELSE /\ tp.state[DictGet(tp.threads, Head(tp.add.keys))] \in {"raised", "complete"}
            /\ tp' = [tp EXCEPT !.add.keys = Tail(tp.add.keys),
                                !.threads = DictPop(tp.threads, Head(tp.add.keys))]
    /\ UNCHANGED <<srv, devVars, commVars, codecVars, structVars, heapVars, dmVars, regVars,
                   pmVars>>

PoolNext ==
    \/ \E uid \in Uids : add(uid)
    \/ add_sweep
    \/ add_finish
    \/ close
    \/ close_join
    \/ \E k \in Funcs : ThreadRunner_enter(k)
    \/ \E k \in Funcs, raised \in BOOLEAN : ThreadRunner_leave(k, raised)
    \/ \E k \in Funcs : ThreadRunner_complete(k)

PoolSpec == StructInit /\ [][PoolNext]_vars


(***************************************************************************)
(* The server's command handler and the client: LifxServer._recv_and_run,  *)
(* LifxServer._send_response, LifxClient.__call__                          *)
(***************************************************************************)

\* A command text is a string of these pieces: words, the blank and the quote
MaxText == 3
Atoms == {"on", "reload", "device", "zz", "-h", " ", "'"}
Texts == UNION {[1..n -> Atoms] : n \in 0..MaxText}

\* shlex.split: blanks outside quotes end a word, a quote starts or ends a
\* quoted part (which makes a word even when empty), and a quote left open at
\* the end of the text raises ValueError.  A word is the string of its pieces.
RECURSIVE shlex_read(_, _, _, _, _, _)
shlex_read(text, i, word, started, quoted, words) ==
    IF i > Len(text)
    THEN IF quoted THEN [err |-> "ValueError", words |-> <<>>]
         ELSE [err |-> "none",
               words |-> IF started THEN Append(words, word) ELSE words]
    ELSE IF text[i] = "'"
    THEN shlex_read(text, i + 1, word, TRUE, ~quoted, words)
    ELSE IF text[i] = " " /\ ~quoted
    THEN shlex_read(text, i + 1, <<>>, FALSE, FALSE,
                    IF started THEN Append(words, word) ELSE words)
    ELSE shlex_read(text, i + 1, Append(word, text[i]), TRUE, quoted, words)

shlex_split(text) == shlex_read(text, 1, <<>>, FALSE, FALSE, <<>>)

\* self._commands: the registered labels taken into the model, "on" without
\* arguments and "reload" with its optional argument
Commands == {<<"on">>, <<"reload">>}

\* cmd.parser.parse_args(cmd_args): _CommandParser.error raises CommandError
parse_args(cmd_label, cmd_args) ==
    IF cmd_label = <<"reload">>
    THEN IF cmd_args = <<>> \/ cmd_args = <<(<<"device">>)>>
         THEN "none" ELSE "CommandError"
    ELSE IF cmd_args = <<>> THEN "none" ELSE "CommandError"

\* what the command returns
CommandText(cmd_label, cmd_args) ==
    IF cmd_label = <<"on">> THEN "Turned on the lights."
    ELSE IF cmd_args = <<>> THEN "Successfully reloaded all configs."
    ELSE "Successfully reloaded device config."

ServerResponse(response, error) == [response |-> response, error |-> error]

\* pickle.dumps with the size written before it, and what send_recv makes of
\* the bytes: the size, the colon, and pickle.loads of the rest
dumps(response) == [size |-> 1, packet |-> <<response>>]

loads(resp_bytes) == resp_bytes.packet[resp_bytes.size]

\* _send_response: conn.sendall and conn.close
Sent(response) ==
    [srv EXCEPT !.pc = "handled", !.sent = Append(srv.sent, dumps(response)),
                !.closed = TRUE]

\* socket.accept and conn.recv: a client has connected and sent its text
accept(text) ==
    /\ srv.pc = "idle"
    /\ srv' = [srv EXCEPT !.pc = "accepted", !.text = text]
    /\ UNCHANGED <<tp, devVars, commVars, codecVars, structVars, heapVars, dmVars, regVars,
                   pmVars>>

\* LifxServer._recv_and_run for the text received; fails says whether running
\* the command raises
recv_and_run(fails) ==
    /\ srv.pc = "accepted"
    /\ \E split \in {shlex_split(srv.text)} :
         IF split.err # "none"
         THEN srv' = [srv EXCEPT !.pc = "handled", !.uncaught = split.err]
         ELSE IF split.words = <<>>
         THEN srv' = [srv EXCEPT !.pc = "handled", !.uncaught = "IndexError"]
         ELSE \E cmd_label \in {Head(split.words)}, cmd_args \in {Tail(split.words)} :
           IF cmd_label \notin Commands
           THEN srv' = [Sent(ServerResponse(<<>>, <<"UnknownServerCommand">>))
                          EXCEPT !.label = <<cmd_label>>]
           ELSE IF <<"-h">> \in Range(cmd_args)
           THEN srv' = [Sent(ServerResponse(<<"usage">>, <<>>))
                          EXCEPT !.label = <<cmd_label>>]
           ELSE IF parse_args(cmd_label, cmd_args) # "none"
           THEN srv' = [Sent(ServerResponse(<<>>, <<parse_args(cmd_label, cmd_args)>>))
                          EXCEPT !.label = <<cmd_label>>,
                                 !.raised = parse_args(cmd_label, cmd_args)]
           ELSE IF fails
           THEN srv' = [Sent(ServerResponse(<<>>, <<"OSError">>))
                          EXCEPT !.label = <<cmd_label>>, !.raised = "OSError"]
           ELSE srv' = [Sent(ServerResponse(<<CommandText(cmd_label, cmd_args)>>, <<>>))
                          EXCEPT !.label = <<cmd_label>>]
    /\ UNCHANGED <<tp, devVars, commVars, codecVars, structVars, heapVars, dmVars, regVars,
                   pmVars>>

\* LifxClient.__call__ once the response has arrived: raise its error if it
\* has one, return its text otherwise
LifxClient_call ==
    /\ srv.pc = "handled"
    /\ srv.sent # <<>>
    /\ \E response \in {loads(Head(srv.sent))} :
         srv' = [srv EXCEPT !.pc = "called",
                            !.client = IF response.error # <<>>
                                       THEN [out |-> "raised", value |-> response.error]
                                       ELSE [out |-> "returned",
                                             value |-> response.response]]
    /\ UNCHANGED <<tp, devVars, commVars, codecVars, structVars, heapVars, dmVars, regVars,
                   pmVars>>

ServeNext ==
    \/ \E text \in Texts : accept(text)
    \/ \E fails \in BOOLEAN : recv_and_run(fails)
    \/ LifxClient_call

ServeSpec == StructInit /\ [][ServeNext]_vars


(***************************************************************************)
(* Device groups: DeviceGroup.__init__, its getters and set_colormap       *)
(***************************************************************************)

MaxGroups == 3
MaxItems == 2
MaxColormaps == 2

\* the names of a configuration and the types of the devices in it: the bulbs
\* of set_colormap
GroupNames == {"a", "b"}
LightTypes == {"light", "infrared"}

\* d.update(e): the entries of e set in d one after another
RECURSIVE DictUpdate(_, _)
DictUpdate(d, e) ==
    IF e = <<>> THEN d
    ELSE DictUpdate(DictSet(d, Head(e).key, Head(e).val), Tail(e))

DictValues(d) == [i \in 1..Len(d) |-> d[i].val]

\* the dict _load_device_group hands to DeviceGroup: each item of the config
\* dict is a device made for it, numbered as it is made, or the group loaded
\* from its "devices"
DevicesAndGroups(items, ndev) ==
    [i \in 1..Len(items) |->
       [key |-> items[i].key,
        val |-> IF items[i].kind = "group"
                THEN [kind |-> "group", id |-> items[i].id]
                ELSE [kind |-> "device",
                      id |-> ndev + Cardinality({j \in 1..i : items[j].kind # "group"})]]]

\* the devices made for the items: label and type
NewDevices(items) ==
    [i \in 1..Len(SelectSeq(items, LAMBDA it : it.kind # "group")) |->
       [label |-> SelectSeq(items, LAMBDA it : it.kind # "group")[i].key,
        type  |-> SelectSeq(items, LAMBDA it : it.kind # "group")[i].kind]]

\* DeviceGroup.__init__: the loop that fills self._all_devices
RECURSIVE AllDevices(_, _, _)
AllDevices(devices_and_groups, groups, the_devices) ==
    IF devices_and_groups = <<>> THEN the_devices
    ELSE IF Head(devices_and_groups).val.kind = "group"
    THEN AllDevices(Tail(devices_and_groups), groups,
                    DictUpdate(the_devices,
                               groups[Head(devices_and_groups).val.id].all_devices))
    ELSE AllDevices(Tail(devices_and_groups), groups,
                    DictSet(the_devices, Head(devices_and_groups).key,
                            Head(devices_and_groups).val.id))

\* DeviceGroup.__init__: the loop that fills self._all_groups
RECURSIVE AllGroups(_, _, _)
AllGroups(devices_and_groups, groups, all_groups) ==
    IF devices_and_groups = <<>> THEN all_groups
    ELSE IF Head(devices_and_groups).val.kind = "group"
    THEN AllGroups(Tail(devices_and_groups), groups,
                   DictUpdate(DictSet(all_groups, Head(devices_and_groups).key,
                                      Head(devices_and_groups).val.id),
                              groups[Head(devices_and_groups).val.id].all_groups))
    ELSE AllGroups(Tail(devices_and_groups), groups, all_groups)

\* DeviceGroup.__init__: self._devices_by_type, the devices of _all_devices
\* in its order under their type
DevicesByType(the_devices, devs) ==
    [t \in LightTypes |->
       SelectSeq(DictValues(the_devices), LAMBDA d : devs[d].type = t)]

\* DeviceGroup.set_colormap: bulbs is the list kept for the plain lights,
\* extended by the infrared lights
Bulbs(devices_by_type) ==
    [devices_by_type EXCEPT
       !["light"] = devices_by_type["light"] \o devices_by_type["infrared"]]

\* the items of a config dict: distinct names, each a device of some type or
\* a group
ItemShapes ==
    { items \in UNION {[1..n -> [key : GroupNames, kind : LightTypes \cup {"group"}]] :
                         n \in 0..MaxItems} :
        \A i, j \in 1..Len(items) : i # j => items[i].key # items[j].key }

\* the groups loaded for the group items: each loaded before and in no other
\* group yet
GroupIds(shape) ==
    { ids \in [1..Len(shape) -> {0} \cup ((1..Len(grp.groups)) \ grp.nested)] :
        /\ \A i \in 1..Len(shape) : (shape[i].kind = "group") = (ids[i] # 0)
        /\ \A i, j \in 1..Len(shape) : (i # j /\ ids[i] # 0) => ids[i] # ids[j] }

Items(shape, ids) ==
    [i \in 1..Len(shape) |-> [key |-> shape[i].key, kind |-> shape[i].kind, id |-> ids[i]]]

\* _load_device_group for one config dict: the devices are made and
\* DeviceGroup(devices_and_groups) is built
DeviceGroup_init(shape, ids) ==
    /\ Len(grp.groups) < MaxGroups
    /\ \E items \in {Items(shape, ids)} :
       \E devices_and_groups \in {DevicesAndGroups(items, Len(grp.devs))},
          devs \in {grp.devs \o NewDevices(items)} :
       \E the_devices \in {AllDevices(devices_and_groups, grp.groups, <<>>)} :
         grp' = [grp EXCEPT
                   !.devs = devs,
                   !.nested = grp.nested \cup
                              {items[i].id : i \in {j \in 1..Len(items) :
                                                      items[j].kind = "group"}},
                   !.groups = Append(grp.groups,
                      [devices_and_groups |-> devices_and_groups,
                       all_devices |-> the_devices,
                       all_groups |-> AllGroups(devices_and_groups, grp.groups, <<>>),
                       devices_by_type |-> DevicesByType(the_devices, devs),
                       by_type_init |-> DevicesByType(the_devices, devs)]),
                   !.last = [op |-> "init", group |-> Len(grp.groups) + 1,
                             requested |-> 0, set_color |-> <<>>]]
    /\ UNCHANGED <<cli, tl, commVars, codecVars, structVars, heapVars, dmVars, regVars,
                   pmVars, srvVars>>

\* DeviceGroup.set_colormap: len(bulbs) colors are requested and each bulb of
\* the list is sent one
DeviceGroup_set_colormap(g) ==
    /\ g \in 1..Len(grp.groups)
    /\ grp.calls < MaxColormaps
    /\ \E devices_by_type \in {Bulbs(grp.groups[g].devices_by_type)} :
         grp' = [grp EXCEPT
                   !.groups[g].devices_by_type = devices_by_type,
                   !.calls = grp.calls + 1,
                   !.last = [op |-> "set_colormap", group |-> g,
                             requested |-> Len(devices_by_type["light"]),
                             set_color |-> devices_by_type["light"]]]
    /\ UNCHANGED <<cli, tl, commVars, codecVars, structVars, heapVars, dmVars, regVars,
                   pmVars, srvVars>>

GroupNext ==
    \/ \E shape \in ItemShapes : \E ids \in GroupIds(shape) :
         DeviceGroup_init(shape, ids)
    \/ \E g \in 1..MaxGroups : DeviceGroup_set_colormap(g)

GroupSpec == StructInit /\ [][GroupNext]_vars


(***************************************************************************)
(* The client of the server: LifxClient.connect, close and send_recv       *)
(***************************************************************************)

MaxCalls == 2
MaxSize == 2
MaxEmptyReads == 2

\* What the server does with a connection: it announces size bytes, delivers
\* sends of them and then closes the connection or goes silent.  A server
\* that sends nothing at all announces nothing.
ServerPlans ==
    {pl \in [size : 0..MaxSize, sends : 0..MaxSize, then : {"close", "silent"}] :
       pl.sends <= pl.size}

\* LifxClient.__init__: timeout says whether the socket gets a timeout
LifxClient_init(timeout) ==
    /\ cli.pc = "new"
    /\ cli' = [cli EXCEPT !.pc = "idle", !.timeout = timeout]
    /\ UNCHANGED <<grp, tl, commVars, codecVars, structVars, heapVars, dmVars, regVars,
                   pmVars, srvVars>>

\* LifxClient.connect: refused when a socket is held; else the socket is made
\* and kept, and connecting to the server succeeds or is refused
connect(socket, refused) ==
    IF socket THEN [err |-> "FileExistsError", socket |-> socket]
    ELSE IF refused THEN [err |-> "ConnectionRefusedError", socket |-> TRUE]
    ELSE [err |-> "none", socket |-> TRUE]

\* LifxClient.close
close_socket(socket) ==
    IF ~socket THEN [err |-> "BrokenPipeError", socket |-> socket]
    ELSE [err |-> "none", socket |-> FALSE]

\* send_recv up to the first recv: connect and send
send_recv(refused, plan) ==
    /\ cli.pc = "idle"
    /\ cli.calls < MaxCalls
    /\ \E c \in {connect(cli.socket, refused)} :
         cli' = [cli EXCEPT !.calls = cli.calls + 1,
                            !.socket = c.socket,
                            !.size = 0, !.packet = 0, !.empty_reads = 0,
                            !.plan = IF c.err = "none" THEN plan ELSE NoPlan,
                            !.pc = IF c.err = "none" THEN "recv" ELSE "idle",
                            !.out = IF c.err = "none" THEN "none" ELSE c.err]
    /\ UNCHANGED <<grp, tl, commVars, codecVars, structVars, heapVars, dmVars, regVars,
                   pmVars, srvVars>>

\* send_recv: the first recv.  It brings the size, the colon and n bytes of
\* the packet; or nothing from a server that closed (EOFError) or that is
\* silent (socket.timeout, when the socket has one); or a piece without the
\* colon, which split cannot unpack (ValueError).
send_recv_first(n, cut) ==
    /\ cli.pc = "recv"
    /\ IF cli.plan.size = 0
       THEN /\ cli.plan.then = "close" \/ cli.timeout
            /\ n = 0 /\ ~cut
            /\ cli' = [cli EXCEPT !.pc = "idle",
                                  !.out = IF cli.plan.then = "close" THEN "EOFError"
                                          ELSE "timeout"]
       ELSE /\ n <= cli.plan.sends
            /\ cut => n = 0
            /\ cli' = IF cut
                      THEN [cli EXCEPT !.pc = "idle", !.out = "ValueError"]
                      ELSE [cli EXCEPT !.pc = "loop", !.size = cli.plan.size,
                                       !.packet = n,
                                       !.plan.sends = cli.plan.sends - n]
    /\ UNCHANGED <<grp, tl, commVars, codecVars, structVars, heapVars, dmVars, regVars,
                   pmVars, srvVars>>

\* send_recv: the test of the while loop and one recv in it, which brings n
\* more bytes, or nothing when the server has closed, or times out; after the
\* loop the socket is closed and the packet unpickled
send_recv_loop(n) ==
    /\ cli.pc = "loop"
    /\ IF cli.packet >= cli.size
       THEN /\ n = 0
            /\ cli' = [cli EXCEPT !.pc = "idle", !.out = "returned",
                                  !.socket = close_socket(cli.socket).socket]
       ELSE IF cli.plan.sends > 0
       THEN /\ n \in 1..cli.plan.sends
            /\ cli' = [cli EXCEPT !.packet = cli.packet + n,
                                  !.plan.sends = cli.plan.sends - n]
       ELSE IF cli.plan.then = "close"
       THEN /\ n = 0
            /\ cli.empty_reads < MaxEmptyReads
            /\ cli' = [cli EXCEPT !.empty_reads = cli.empty_reads + 1]
       ELSE /\ n = 0
            /\ cli.timeout
            /\ cli' = [cli EXCEPT !.pc = "idle", !.out = "timeout"]
    /\ UNCHANGED <<grp, tl, commVars, codecVars, structVars, heapVars, dmVars, regVars,
                   pmVars, srvVars>>

ClientNext ==
    \/ \E timeout \in BOOLEAN : LifxClient_init(timeout)
    \/ \E refused \in BOOLEAN, plan \in ServerPlans : send_recv(refused, plan)
    \/ \E n \in 0..MaxSize, cut \in BOOLEAN : send_recv_first(n, cut)
    \/ \E n \in 0..MaxSize : send_recv_loop(n)

ClientSpec == StructInit /\ [][ClientNext]_vars


(***************************************************************************)
(* Tiles: LifxTile.set_colormap                                            *)
(***************************************************************************)

MaxTiles == 3
MaxDivision == 5

\* tile_idx of cell kk of square jj, out of col, row, sq_col and sq_row
tile_idx_NoRow(jj, kk, division) ==
    (kk % (TILE_WIDTH \div division)) + (jj % division) * (TILE_WIDTH \div division)
    + TILE_WIDTH * (kk \div (TILE_WIDTH \div division))

tile_idx(jj, kk, division) ==
    (kk % (TILE_WIDTH \div division)) + (jj % division) * (TILE_WIDTH \div division)
    + TILE_WIDTH * ((kk \div (TILE_WIDTH \div division))
                    + (jj \div division) * (TILE_WIDTH \div division))

\* color_idx of square jj of tile ii, out of row and col
color_idx(ii, jj, division) ==
    ii * (division * division) + (jj \div division) * division + (jj % division)

\* the cells of a square: range(sq_width**2)
Cells(division) == 0..((TILE_WIDTH \div division) * (TILE_WIDTH \div division) - 1)

\* set_colormap up to the loops: the check of division, the number of tiles
\* (with none the loop is not entered) and a list of black for the first tile
set_colormap(division, num_tiles) ==
    /\ tl.pc = "idle"
    /\ IF division \notin {1, 2, 4}
       THEN tl' = [tl EXCEPT !.pc = "raised", !.err = "ValueError",
                             !.division = division, !.num_tiles = num_tiles]
       ELSE tl' = [tl EXCEPT !.pc = IF num_tiles = 0 THEN "done" ELSE "fill",
                             !.division = division, !.num_tiles = num_tiles]
    /\ UNCHANGED <<grp, cli, commVars, codecVars, structVars, heapVars, dmVars, regVars,
                   pmVars, srvVars>>

\* one iteration of the loop over jj: every cell kk of the square is given
\* the color of the square
fill_square ==
    /\ tl.pc = "fill"
    /\ tl.ii < tl.num_tiles
    /\ tl.jj < tl.division * tl.division
    /\ tl' = [tl EXCEPT
                !.jj = tl.jj + 1,
                !.colors_per_tile =
                    [p \in Pixels |->
                       IF \E kk \in Cells(tl.division) : tile_idx(tl.jj, kk, tl.division) = p
                       THEN color_idx(tl.ii, tl.jj, tl.division)
                       ELSE tl.colors_per_tile[p]],
                !.writes =
                    [p \in Pixels |->
                       tl.writes[p]
                       + Cardinality({kk \in Cells(tl.division) :
                                        tile_idx(tl.jj, kk, tl.division) = p})]]
    /\ UNCHANGED <<grp, cli, commVars, codecVars, structVars, heapVars, dmVars, regVars,
                   pmVars, srvVars>>

\* after the loop over jj: set_tile_colors(ii, colors_per_tile), and a list
\* of black for the next tile; after the last tile set_colormap returns
set_tile_colors ==
    /\ tl.pc = "fill"
    /\ tl.ii < tl.num_tiles
    /\ tl.jj = tl.division * tl.division
    /\ tl' = [tl EXCEPT
                !.sent = Append(tl.sent, [tile_index |-> tl.ii,
                                          colors |-> tl.colors_per_tile,
                                          writes |-> tl.writes]),
                !.ii = tl.ii + 1,
                !.jj = 0,
                !.colors_per_tile = [p \in Pixels |-> -1],
                !.writes = [p \in Pixels |-> 0],
                !.pc = IF tl.ii + 1 = tl.num_tiles THEN "done" ELSE "fill"]
    /\ UNCHANGED <<grp, cli, commVars, codecVars, structVars, heapVars, dmVars, regVars,
                   pmVars, srvVars>>

TileNext ==
    \/ \E division \in 0..MaxDivision, num_tiles \in 0..MaxTiles :
         set_colormap(division, num_tiles)
    \/ fill_square
    \/ set_tile_colors

TileSpec == StructInit /\ [][TileNext]_vars


(***************************************************************************)
(* The claims                                                              *)
(***************************************************************************)
\* a value that a register of the type holds without loss of range
InRangeValue(t, v) ==
    CASE t = "char" -> v.v >= 0 /\ v.v <= 255
      [] t = "s16"  -> v >= -32768 /\ v <= 32767
      [] t = "f32"  -> v >= 0
      [] OTHER      -> FitsUnsigned(v, LifxTypeBits(t))

\* every field value of the instance, nested structs included, is in range
RECURSIVE InRange(_)
InRange(inst) ==
    \A reg \in Range(Registers(inst.cls)) : \A i \in 1..reg.len :
        IF IsLifxType(reg.type)
        THEN InRangeValue(reg.type, inst.values[reg.name][i])
        ELSE InRange(inst.values[reg.name][i])

\* the two instances agree on every register that is not reserved
SameFields(a, b) ==
    /\ a.cls = b.cls
    /\ \A name \in RegNames(a.cls) : IsReserved(name) \/ a.values[name] = b.values[name]

\* the bytes reached decode_bytes as get_bytes_and_source returned them
Intact == wire = enc_out.bytes

\* C1: packet round trip.  For every registered message whose field values
\* are in range and every MAC, res_required, ack_required, sequence and
\* source, get_bytes_and_source returns a packet, and decode_bytes of that
\* packet with the same source and sequence succeeds and returns a payload
\* equal to the message on every non-reserved field, frame.source the given
\* source, frame_address.sequence the given sequence and
\* protocol_header.type the type code of the message.
C1_PacketRoundTrip ==
    (stage # "idle" /\ TypeOfClass(enc_in.payload.cls) # 0 /\ InRange(enc_in.payload))
    => /\ enc_out.err = "none"
       /\ (stage = "decoded" /\ Intact
             /\ dec_args.nominal_source = <<enc_out.source>>
             /\ dec_args.nominal_sequence = <<enc_in.sequence>>)
          => /\ dec_out.err = "none"
             /\ SameFields(dec_out.payload, enc_in.payload)
             /\ GetValue(dec_out.frame, "source")
                  = (IF enc_in.source = <<>> THEN Pid ELSE enc_in.source[1])
             /\ GetValue(dec_out.frame_address, "sequence") = enc_in.sequence
             /\ GetValue(dec_out.protocol_header, "type")
                  = TypeOfClass(enc_in.payload.cls)

\* C2: correlation robustness.  While send_recv waits for a response, a
\* datagram whose source or sequence differs from the request's is dropped
\* and the wait goes on: no source or sequence mismatch is ever raised to
\* the caller of send_recv.
C2_MismatchNeverRaised ==
    pc = "raised" => result.err \notin {"SourceMismatch", "SequenceMismatch"}

\* C3: multi-response collection.  A send_recv call with retry_recv set is
\* accepted: it transmits its request and collects the responses, so it
\* never ends with the exception of a rejected argument and its one packet
\* is on the wire once the call is under way.
C3_RetryRecvCollects ==
    (pc # "idle" /\ call.retry_recv # "absent")
    => (result.err # "TypeError" /\ Len(sent) = 1)

\* C4: bounded wait.  A send_recv call that waits for a response on a socket
\* where no datagram has arrived can always go on by itself: the receive
\* times out, whatever channel the constructor has built.
C4_BoundedWait ==
    (pc = "recv" /\ inbox = <<>>) => ENABLED RecvTimeout

\* C5: fire and forget.  When neither res_required nor ack_required is set,
\* send_recv never waits on the socket; once it has returned it has sent
\* exactly one packet, to the address of the channel, has called recvfrom
\* not once and returns no response (None).
C5_FireAndForget ==
    (pc # "idle" /\ call.res_required = 0 /\ call.ack_required = 0)
    => /\ pc # "recv"
       /\ nrecv = 0
       /\ pc = "done" => /\ Len(sent) = 1
                         /\ sent[1].addr = <<chan.ip, chan.port>>
                         /\ result = Returned(NoResponse)

\* a call without res_required and ack_required has returned
C5_Witness ==
    /\ pc = "done"
    /\ call.res_required = 0 /\ call.ack_required = 0
    /\ Len(sent) = 1
    /\ result = Returned(NoResponse)

\* the size, the source and the sequence as the bytes on the wire state them
WireSize     == wire[1] + 256 * wire[2]
WireSource   == LEValue(SubSeq(wire, 5, 8))
WireSequence == wire[24]

\* C6: decode validation order.  For an input of at least 8 bytes,
\* decode_bytes fails with the size mismatch when the size field differs from
\* the number of bytes, whatever the source and the sequence are; otherwise
\* with the source mismatch when a nominal source is given and differs;
\* otherwise with the sequence mismatch when a nominal sequence is given and
\* differs; and with none of the three in every other case, so a field
\* without a nominal value is not checked.
C6_ValidationOrder ==
    (stage = "decoded" /\ Len(wire) >= 8)
    => IF WireSize # Len(wire)
       THEN dec_out.err = "SizeMismatch"
       ELSE IF dec_args.nominal_source # <<>> /\ WireSource # dec_args.nominal_source[1]
       THEN dec_out.err = "SourceMismatch"
       ELSE IF Len(wire) >= 24 /\ dec_args.nominal_sequence # <<>>
               /\ WireSequence # dec_args.nominal_sequence[1]
       THEN dec_out.err = "SequenceMismatch"
       ELSE dec_out.err \notin {"SizeMismatch", "SourceMismatch", "SequenceMismatch"}

\* a packet whose size, source and sequence are all wrong fails on its size
C6_Witness ==
    /\ stage = "decoded"
    /\ Len(wire) >= 24
    /\ WireSize # Len(wire)
    /\ dec_args.nominal_source # <<>> /\ WireSource # dec_args.nominal_source[1]
    /\ dec_args.nominal_sequence # <<>> /\ WireSequence # dec_args.nominal_sequence[1]
    /\ dec_out.err = "SizeMismatch"

\* C7: size self-consistency on encode.  Whenever get_bytes_and_source
\* returns bytes, their size field is their length, and that is 8 + 16 + 12
\* plus the length of the payload's own bytes.
C7_SizeIsLength ==
    (stage # "idle" /\ enc_out.err = "none")
    => /\ LEValue(SubSeq(enc_out.bytes, 1, 2)) = Len(enc_out.bytes)
       /\ Len(enc_out.bytes) = 8 + 16 + 12 + Len(ToBytes(enc_in.payload).bytes)

\* a packet with a payload of 52 bytes has been built
C7_Witness ==
    /\ stage = "encoded"
    /\ enc_out.err = "none"
    /\ enc_in.payload.cls = "State"
    /\ Len(enc_out.bytes) = 88

\* the tagged bit of a packet: bit 13 of the 16 bits after the size
TaggedBit(bs) == (bs[4] \div 32) % 2

\* C8: tagged rule.  get_bytes_and_source sets frame.tagged exactly when no
\* target MAC is supplied or the type code of the payload is 2 (GetService).
C8_TaggedRule ==
    (stage = "encoded" /\ Intact)
    => (TaggedBit(wire) = 1
          <=> (enc_in.mac_addr = <<>> \/ TypeOfClass(enc_in.payload.cls) = 2))

PinnedRegisters == {"protocol", "addressable", "origin"}

\* C9: frame pinning.  After any sequence of constructions, writes and
\* decodes a Frame has protocol 1024, addressable true and origin 0, and no
\* construction, no write obj[name] = value to one of the three registers
\* and no decode of 8 bytes raises.
C9_FramePinned ==
    /\ obj.cls = "Frame"
       => /\ obj.values["protocol"] = <<1024>>
          /\ obj.values["addressable"] = <<1>>
          /\ obj.values["origin"] = <<0>>
    /\ (last.cls = "Frame" /\ last.op = "init") => last.err = "none"
    /\ (last.cls = "Frame" /\ last.op = "set" /\ last.name \in PinnedRegisters
          /\ last.idx = <<>>)
       => last.err = "none"
    /\ (last.cls = "Frame" /\ last.op = "from_bytes" /\ Len(last.value.items) = 8)
       => last.err = "none"

\* a list of three was written to protocol, and protocol is still 1024
C9_Witness ==
    /\ obj.cls = "Frame"
    /\ last.op = "set" /\ last.name = "protocol" /\ last.value = List(<<1, 2, 3>>)
    /\ last.err = "none"
    /\ obj.values["protocol"] = <<1024>>

\* every reserved register of the instance holds zeros
ReservedZero(inst) ==
    \A reg \in Range(Registers(inst.cls)) :
        IsReserved(reg.name) => inst.values[reg.name] = ZeroList(reg)

\* the classes whose set_value takes no index
NoIndexClasses == {"Frame", "FrameAddress"}

\* C10: reserved registers are zero.  After any sequence of constructions,
\* writes (scalar, list or indexed) and decodes every register whose name
\* contains "reserved" holds zeros only; a construction given values for
\* reserved registers does not raise, and a write to a reserved register
\* raises for no value (with an index it is a call only where the class
\* takes one).
C10_ReservedZero ==
    /\ obj # NoInst => ReservedZero(obj)
    /\ (last.op = "init" /\ last.cls # "Frame") => last.err = "none"
    /\ (last.op = "set" /\ IsReserved(last.name)
          /\ (last.idx = <<>> \/ last.cls \notin NoIndexClasses))
       => last.err = "none"

\* a list of three was written at index 2 of a reserved register of one
\* value, and the register holds zero
C10_Witness ==
    /\ last.op = "set" /\ IsReserved(last.name)
    /\ last.value = List(<<1, 2, 3>>) /\ last.idx = <<2>>
    /\ last.err = "none"
    /\ ReservedZero(obj)
    /\ Len(obj.values[last.name]) = 1

\* the values of the write that was called last, as a list
Written == last.value.items

\* the write called last is a write at the bound of an unsigned register
BoundWrite ==
    /\ last.op \in {"init", "set"}
    /\ last.name \in BoundNames(last.cls)
    /\ last.value.kind \in {"int", "list"}

\* it writes 2^bit_width
OverBound ==
    \E j \in 1..Len(Written) :
        Written[j] = Pow2(LifxTypeBits(RegOf(last.cls, last.name).type))

\* C11: bit bound.  Writing 2^bit_width to an unsigned numeric register, or
\* to an element of an array register, is rejected by the write itself
\* (constructor or set_value), and writing 2^bit_width - 1 succeeds.
C11_BitBound ==
    BoundWrite => (last.err # "none" <=> OverBound)

\* a kelvin value an Hsbk may hold
KelvinOk(k) == k = 0 \/ (k >= 2500 /\ k <= 9000)

\* the kelvin of the instance, of a SetColor the kelvin of its color
KelvinOf(inst) ==
    IF inst.cls = "Hsbk" THEN inst.values["kelvin"][1]
    ELSE inst.values["color"][1].values["kelvin"][1]

\* the kelvin value the operation called last wrote: <<k>>, or <<>> when it
\* did not write a kelvin value
KelvinWritten(op) ==
    CASE op.op = "from_bytes" /\ op.cls = "Hsbk"
           -> <<LEValue(SubSeq(op.value.items, 7, 8))>>
      [] op.op = "from_bytes" /\ op.cls = "SetColor"
           -> <<LEValue(SubSeq(op.value.items, 8, 9))>>
      [] op.op \in {"init", "set"} /\ op.cls = "Hsbk" /\ op.name = "kelvin"
           /\ Len(op.value.items) = 1
           -> <<op.value.items[1]>>
      [] OTHER -> <<>>

\* C12: kelvin bound.  Constructing an Hsbk with, setting, or decoding a
\* kelvin value k succeeds if and only if k = 0 or 2500 <= k <= 9000; every
\* Hsbk instance reached holds such a kelvin; a write that is rejected
\* raises and leaves the instance as it was.
C12_KelvinBound ==
    /\ [](/\ obj.cls \in {"Hsbk", "SetColor"} => KelvinOk(KelvinOf(obj))
          /\ KelvinWritten(last) # <<>>
               => (last.err = "none" <=> KelvinOk(KelvinWritten(last)[1])))
    /\ [][(KelvinWritten(last') # <<>> /\ last'.err # "none") => obj' = obj]_vars

\* a kelvin outside of the range was refused by a write to an Hsbk that
\* holds 3500, and the ends of the range were accepted
C12_Witness ==
    /\ obj.cls = "Hsbk" /\ KelvinOf(obj) \in {2500, 9000}
    /\ last.op = "set" /\ KelvinWritten(last) \in {<<2499>>, <<9001>>}
    /\ last.err = "ValueError"

\* C13: fresh defaults.  A message created without initial values has a
\* zero-valued nested instance whatever was done to other instances before,
\* and the nested object of a message is its own: no other message holds
\* it, so that a write to it changes no other instance and no default.
C13_FreshDefaults ==
    /\ (last.op = "init" /\ last.name = "")
          => heap[msgs[Len(msgs)].color] = New("Hsbk", NoArgs)
    /\ \A i, j \in 1..Len(msgs) : i # j => msgs[i].color # msgs[j].color

\* the queries discover sent to an IP, and the entries of its result for it
QueriesTo(ip) == { i \in 1..Len(dm.asked) : dm.asked[i].ip = ip }
EntriesOf(ip) == { i \in 1..Len(dm.device_dict) : dm.device_dict[i].val.ip = ip }

\* C14: discovery deduplication.  However many StateService replies an IP
\* sent, in one broadcast iteration or over several, discover keeps one
\* response for it, the latest; it sends the label and version queries to
\* the IP at most once, to the port of that latest reply, and its result
\* has at most one entry for the IP.
C14_DiscoverDedup ==
    \A ip \in Ips :
        /\ Cardinality({ i \in 1..Len(dm.state_service_dict) :
                           dm.state_service_dict[i].key = ip }) <= 1
        /\ DictHas(dm.state_service_dict, ip)
              => /\ DictHas(dm.heard, ip)
                 /\ DictGet(dm.state_service_dict, ip).port = DictGet(dm.heard, ip).port
        /\ Cardinality(QueriesTo(ip)) <= 1
        /\ Cardinality(EntriesOf(ip)) <= 1
        /\ \A i \in QueriesTo(ip) : dm.asked[i].port = DictGet(dm.heard, ip).port
        /\ \A i \in EntriesOf(ip) : dm.device_dict[i].val.port = DictGet(dm.heard, ip).port

C14_Witness ==
    /\ dm.pc = "done"
    /\ \E ip \in Ips :
          /\ DictHas(dm.heard, ip)
          /\ DictGet(dm.heard, ip).n = NumRetries * MaxReplies
          /\ DictGet(dm.heard, ip).port = 56701
          /\ Cardinality(EntriesOf(ip)) = 1

\* a query pair that failed: no reply to GetLabel or to GetVersion, or a
\* product that is not in the products table
QueryFailed(q) ==
    \/ q.label = "NoResponsesError"
    \/ q.product_id \notin ProductIds

\* C15: discovery failure isolation.  discover never raises because of the
\* queries to one responder; when it has returned, a responder whose label
\* or version query failed has no entry in the result and every responder
\* whose queries both succeeded has one.
C15_FailureIsolation ==
    /\ dm.pc # "raised"
    /\ dm.pc = "done"
          => \A i \in 1..Len(dm.asked) :
                IF QueryFailed(dm.asked[i])
                THEN EntriesOf(dm.asked[i].ip) = {}
                ELSE EntriesOf(dm.asked[i].ip) # {}

\* the class by the priority matrix > multizone > infrared > plain
PriorityClass(features) ==
    IF features.matrix THEN "LifxTile"
    ELSE IF features.multizone THEN "LifxMultiZone"
    ELSE IF features.infrared THEN "LifxInfraredLight"
    ELSE "LifxLight"

\* C16: device classification priority.  For every combination of the
\* feature flags of a product, the class get_product_info gives a device of
\* that product is the tile class if matrix is set, else the multizone class
\* if multizone is set, else the infrared class if infrared is set, else the
\* plain light class.
C16_ClassPriority ==
    \A i \in 1..Len(dm.device_dict) :
        dm.device_dict[i].val.class
            = PriorityClass(Products(dm.device_dict[i].val.product_name))

\* C17: registry duplicate registration.  Declaring a message type that is
\* already in the table with a class of other registers fails, and the table
\* keeps, for every type, the registers of the class declared first.
C17_FirstRegistrationKept ==
    /\ \A t \in DeclTypes :
          DictHas(registry, t)
             => Registers(DictGet(registry, t)) = Registers(DictGet(declared.first, t))
    /\ (/\ declared.cls # ""
        /\ Registers(declared.cls)
              # Registers(DictGet(declared.first, declared.message_type)))
          => declared.err # "none"

\* two labels of the config with a device in common
Shares(a, b) == ProcessConfig(a).devices \cap ProcessConfig(b).devices # {}

\* before the step, a running process other than label holds one of its devices
Contended(label) ==
    \E other \in Labels \ {label} : running(pm.all_processes[other]) /\ Shares(label, other)

\* the step is a call of the manager: a child that exits leaves pm.last as
\* it is
ManagerCall(op) ==
    /\ pm'.last.op = op
    /\ pm'.last.calls # pm.last.calls

\* C18: device exclusivity.  Whatever calls of start, stop, restart, killall
\* and check_failures were made, no two running processes share a device;
\* start(label) while another running process holds a device of label
\* raises DeviceConflictError and starts nothing.
C18_DeviceExclusivity ==
    /\ [](\A a, b \in Labels :
             (a # b /\ running(pm.all_processes[a]) /\ running(pm.all_processes[b]))
                => ~Shares(a, b))
    /\ [][(ManagerCall("start") /\ Contended(pm'.last.label))
             => /\ pm'.last.err = "DeviceConflictError"
                /\ pm'.all_processes = pm.all_processes
                /\ pm'.popens = pm.popens]_vars

C18_Witness ==
    /\ pm.last.op = "start"
    /\ pm.last.label = "ongoing"
    /\ pm.last.err = "DeviceConflictError"
    /\ running(pm.all_processes["immortal"])
    /\ pm.all_processes["immortal"].proc >= 2
    /\ ~running(pm.all_processes["ongoing"])

\* C19: no duplicate ongoing process.  start of an ongoing process that is
\* running raises ProcessRunningError and leaves every process as it was,
\* the same child still running; start of a process that was stopped, and
\* restart of a process in any state, give a new running child unless
\* another running process holds one of its devices.
C19_NoDuplicateOngoing ==
    [][/\ (/\ ManagerCall("start")
           /\ Process(pm'.last.label).ongoing
           /\ running(pm.all_processes[pm'.last.label]))
          => /\ pm'.last.err = "ProcessRunningError"
             /\ pm'.all_processes = pm.all_processes
       /\ (/\ ManagerCall("start")
           /\ pm.all_processes[pm'.last.label].proc = 0
           /\ ~Contended(pm'.last.label))
          => /\ pm'.last.err = "none"
             /\ running(pm'.all_processes[pm'.last.label])
       /\ ManagerCall("restart")
          => /\ pm'.last.err # "ProcessRunningError"
             /\ ~Contended(pm'.last.label)
                   => /\ pm'.last.err = "none"
                      /\ running(pm'.all_processes[pm'.last.label])
                      /\ pm'.all_processes[pm'.last.label].proc
                            > pm.all_processes[pm'.last.label].proc]_vars

C19_Witness ==
    /\ pm.last.op = "start"
    /\ pm.last.label = "ongoing"
    /\ pm.last.err = "ProcessRunningError"
    /\ running(pm.all_processes["ongoing"])
    /\ pm.all_processes["ongoing"].proc >= 2

\* C20: immortal processes.  killall() without kill_immortal leaves every
\* process whose config says immortal: true as it was, whatever the config
\* says else; after killall(kill_immortal=True) no process runs.
C20_ImmortalSurvives ==
    [][ManagerCall("killall")
          => IF pm'.last.kill_immortal
             THEN \A label \in Labels : ~running(pm'.all_processes[label])
             ELSE \A label \in Labels :
                     ProcessConfig(label).immortal
                        => pm'.all_processes[label] = pm.all_processes[label]]_vars

\* C21: stop is idempotent.  stop of a process without a handle raises
\* nothing and changes nothing; after any stop the process has no handle and
\* does not run, the other processes are as they were, and a second stop
\* would give the state of the first.
C21_StopIdempotent ==
    /\ [][ManagerCall("stop")
             => /\ pm'.last.err = "none"
                /\ pm'.all_processes[pm'.last.label] = NoProc
                /\ ~running(pm'.all_processes[pm'.last.label])
                /\ \A other \in Labels \ {pm'.last.label} :
                      pm'.all_processes[other] = pm.all_processes[other]
                /\ pm'.popens = pm.popens
                /\ [pm'.all_processes EXCEPT ![pm'.last.label] = Process_stop(@)]
                      = pm'.all_processes]_vars
    /\ [](\A label \in Labels :
             pm.all_processes[label].proc = 0
                => Process_stop(pm.all_processes[label]) = pm.all_processes[label])

C21_Witness ==
    /\ pm.last.op = "stop"
    /\ pm.last.label = "ongoing"
    /\ pm.all_processes["ongoing"] = NoProc
    /\ pm.popens >= 2
    /\ running(pm.all_processes["oneshot"])

\* C29: one-shot processes do not linger.  When start(label) has returned
\* without error for a process that is not ongoing, the process is not
\* running.
C29_OneshotNotRunning ==
    [][(/\ ManagerCall("start")
        /\ pm'.last.err = "none"
        /\ ~ProcessConfig(pm'.last.label).ongoing)
          => ~running(pm'.all_processes[pm'.last.label])]_vars

\* before the step, the child of the process has exited with a code other than 0
ExitedNonZero(label) ==
    /\ pm.all_processes[label].proc # 0
    /\ pm.all_processes[label].returncode \notin {<<>>, <<0>>}

\* the step is check_failures(kill_oneshot=True) and the process is one it kills
KilledAsOneshot(label) ==
    /\ pm'.last.kill_oneshot
    /\ ~ProcessConfig(label).ongoing
    /\ running(pm.all_processes[label])

\* C30: failure reporting.  check_failures reports exactly the processes
\* whose child had exited with a code other than 0 and the running
\* non-ongoing processes it killed under kill_oneshot; every process it
\* reports has no handle afterwards, so no later call reports it again; a
\* process that runs and is not killed, or that exited with 0, is not
\* reported; a running ongoing process is left as it is.
C30_FailureReporting ==
    [][ManagerCall("check_failures")
          => \A label \in Labels :
                /\ label \in pm'.last.failures
                      <=> (ExitedNonZero(label) \/ KilledAsOneshot(label))
                /\ label \in pm'.last.failures => pm'.all_processes[label].proc = 0
                /\ KilledAsOneshot(label) => ~running(pm'.all_processes[label])
                /\ (running(pm.all_processes[label]) /\ ~KilledAsOneshot(label))
                      => pm'.all_processes[label] = pm.all_processes[label]
                /\ (running(pm.all_processes[label]) /\ ProcessConfig(label).ongoing)
                      => running(pm'.all_processes[label])
                /\ pm.all_processes[label].returncode = <<0>>
                      => label \notin pm'.last.failures]_vars

C30_Witness ==
    /\ pm.last.op = "check_failures"
    /\ pm.last.kill_oneshot
    /\ pm.last.failures = {"oneshot", "failure"}
    /\ running(pm.all_processes["ongoing"])

BitOf(byte, k) == (byte \div Pow2(k)) % 2

\* C25: the flags byte of the frame address.  The encoding has res_required
\* in bit 0 and ack_required in bit 1 of byte 14, the other bits zero; the
\* decoding of 16 bytes gives res_required bit 0 and ack_required bit 1 of
\* that byte, whatever bits 2 to 7 are.
C25_FlagsByte ==
    /\ (last.op = "to_bytes" /\ last.cls = "FrameAddress")
          => /\ last.err = "none"
             /\ last.value.items[15]
                   = GetValue(obj, "res_required") + 2 * GetValue(obj, "ack_required")
    /\ (last.op = "from_bytes" /\ last.cls = "FrameAddress")
          => /\ last.err = "none"
             /\ GetValue(obj, "res_required") = BitOf(last.value.items[15], 0)
             /\ GetValue(obj, "ack_required") = BitOf(last.value.items[15], 1)

\* C24: decoded packet invariant.  Every packet decode_bytes returns has a
\* frame whose size is the byte length of the frame, the frame address, the
\* protocol header and the payload together; so an input longer than 36
\* bytes plus the length of the registers of its type, with a size field
\* that states its length, is rejected.
C24_DecodedSize ==
    (stage = "decoded" /\ dec_out.err = "none")
    => GetValue(dec_out.frame, "size")
          = SizeBytes("Frame") + SizeBytes("FrameAddress") + SizeBytes("ProtocolHeader")
            + SizeBytes(dec_out.payload.cls)

\* the entry has no type, a type that is no device type, or is no group
\* and has no IP
Defective(conf) ==
    \/ conf.type = <<>>
    \/ conf.type \notin { <<t>> : t \in DeviceTypes }
    \/ (conf.type # <<"group">> /\ conf.ip = <<>>)

\* the config file has such an entry, at the top or in a group
HasDefect(file) ==
    \E i \in 1..Len(file) :
        \/ Defective(file[i])
        \/ \E j \in 1..Len(file[i].devices) : Defective(file[i].devices[j])

Executing == {k \in Funcs : tp.state[k] = "running"}

\* C27: serialised execution.  At no time are two functions submitted to the
\* same thread pool executing simultaneously, whatever the interleaving of
\* add calls and thread scheduling: a function that is executing is the one
\* whose thread holds the pool's lock.
C27_SerialisedExecution ==
    /\ Cardinality(Executing) <= 1
    /\ \A k \in Executing : tp.lock = k

\* one function executes while the thread of another waits for the lock and a
\* third add is sweeping the full pool
C27_Witness ==
    /\ Cardinality(Executing) = 1
    /\ \E k \in Funcs : tp.state[k] = "waiting"
    /\ tp.add.pc = "sweep"

\* add(func) has returned
Added(k) == k <= tp.adds /\ tp.add.func # k

\* C28: thread pool drop policy.  When add is called while the pool already
\* tracks num_threads threads and not all of them are complete, the incoming
\* request is dropped: its function is never run.  The number of tracked
\* threads never exceeds num_threads.
C28_DropPolicy ==
    /\ Len(tp.threads) <= NumThreads
    /\ \A k \in Funcs :
         (Added(k) /\ tp.at_call[k].full /\ tp.at_call[k].incomplete)
           => tp.state[k] = "dropped"

\* the handler of the connection has ended
Handled == srv.pc \in {"handled", "called"}

\* C22: one response per command.  For every command text received on an
\* accepted connection the server sends exactly one ServerResponse and then
\* closes the connection: error UnknownServerCommand for a label that is not
\* registered, the exception raised while parsing the arguments or running
\* the command as error, and the command's text as response otherwise.
\* LifxClient.__call__ raises the error when there is one and returns the
\* text otherwise.
C22_OneResponse ==
    /\ Handled =>
         /\ Len(srv.sent) = 1
         /\ srv.closed
         /\ srv.uncaught = "none"
         /\ \E response \in {loads(srv.sent[1])} :
              /\ (srv.label # <<>> /\ srv.label[1] \notin Commands)
                   => response = ServerResponse(<<>>, <<"UnknownServerCommand">>)
              /\ srv.raised # "none" => response = ServerResponse(<<>>, <<srv.raised>>)
              /\ (srv.label # <<>> /\ srv.label[1] \in Commands /\ srv.raised = "none")
                   => response.error = <<>> /\ response.response # <<>>
    /\ srv.pc = "called" =>
         \E response \in {loads(srv.sent[1])} :
           srv.client = IF response.error # <<>>
                        THEN [out |-> "raised", value |-> response.error]
                        ELSE [out |-> "returned", value |-> response.response]

\* the groups placed in group g, directly or in a nested group
RECURSIVE Nested(_)
Nested(g) ==
    {e.val.id : e \in {x \in Range(grp.groups[g].devices_and_groups) : x.val.kind = "group"}}
    \cup UNION {Nested(e.val.id) :
                  e \in {x \in Range(grp.groups[g].devices_and_groups) : x.val.kind = "group"}}

\* the devices placed directly in group g
Direct(g) ==
    {e.val.id : e \in {x \in Range(grp.groups[g].devices_and_groups) : x.val.kind = "device"}}

\* the devices placed in group g or in a group nested in it
Placed(g) == Direct(g) \cup UNION {Direct(k) : k \in Nested(g)}

\* C31: group flattening.  For every DeviceGroup built from a nested
\* configuration, get_all_devices() is exactly the set of the devices placed
\* in the group or in a transitively nested subgroup, get_all_groups() is
\* exactly the set of the transitively nested subgroups and never holds the
\* group itself, no group name is a name among the devices, and has_device
\* does not report a device outside the group's subtree.
C31_GroupFlattening ==
    \A g \in 1..Len(grp.groups) :
      /\ Range(DictValues(grp.groups[g].all_devices)) = Placed(g)
      /\ Range(DictValues(grp.groups[g].all_groups)) = Nested(g)
      /\ g \notin Range(DictValues(grp.groups[g].all_groups))
      /\ \A name \in GroupNames :
           DictHas(grp.groups[g].all_groups, name) => ~DictHas(grp.groups[g].all_devices, name)
      /\ \A d \in 1..Len(grp.devs) :
           (d \notin Placed(g) /\ DictHas(grp.groups[g].all_devices, grp.devs[d].label))
             => DictGet(grp.groups[g].all_devices, grp.devs[d].label) # d

\* the list of the devices of a type that the group was built with
Classified(g, t) == grp.groups[g].by_type_init[t]

\* C39: a group colormap leaves the group unchanged.  set_colormap does not
\* modify the group's classification of devices by type: after any number of
\* calls each plain or infrared light is still listed once and is sent exactly
\* one set_color per call, and the number of colors requested for the bulbs
\* is the number of bulbs of the group.
C39_ColormapKeepsGroup ==
    /\ \A g \in 1..Len(grp.groups) : \A t \in LightTypes :
         grp.groups[g].devices_by_type[t] = Classified(g, t)
    /\ grp.last.op = "set_colormap" =>
         /\ grp.last.requested
              = Len(Classified(grp.last.group, "light"))
                + Len(Classified(grp.last.group, "infrared"))
         /\ \A d \in Range(Classified(grp.last.group, "light"))
                     \cup Range(Classified(grp.last.group, "infrared")) :
              Cardinality({i \in 1..Len(grp.last.set_color) : grp.last.set_color[i] = d}) = 1

\* add started a thread for the function
Accepted(k) == tp.state[k] \notin {"none", "dropped"}

\* the function has finished: it returned or raised
Finished(k) == tp.state[k] \in {"returned", "raised", "complete"}

\* C32: thread pool shutdown.  close() returns only after every function
\* that add accepted has finished: every started runner stays tracked by the
\* pool until it has been joined.
C32_CloseJoinsAll ==
    /\ tp.add.pc = "closed" => \A k \in Funcs : Accepted(k) => Finished(k)
    /\ \A k \in Funcs :
         (Accepted(k) /\ k \notin Range(DictValues(tp.threads)))
           => tp.state[k] \in {"raised", "complete"}

\* C33: thread pool slot recovery.  A runner whose function has finished,
\* whether it returned or raised, is reported complete once its thread has
\* ended, so that a full pool whose threads have all ended accepts the next
\* add: handling that raises does not occupy a slot for ever.
C33_SlotRecovery ==
    /\ \A k \in Funcs : tp.state[k] # "raised"
    /\ \A k \in Funcs :
         (Added(k) /\ tp.at_call[k].full /\ tp.at_call[k].ended) => Accepted(k)

\* C34: command ordering.  The functions submitted by recv_and_run for
\* connections accepted one after another are executed in the order of their
\* add calls, whatever the scheduling of the pool's threads: a function does
\* not start while one submitted before it still waits to run.
C34_AcceptOrder ==
    [][\A k \in Funcs :
         (tp.state[k] = "waiting" /\ tp'.state[k] = "running")
           => \A j \in 1..(k - 1) : tp.state[j] # "waiting"]_vars

\* a send_recv call of the client has ended, by returning or raising
CallEnded == cli.pc = "idle" /\ cli.calls > 0

\* C35: client session release.  After any send_recv call, whether it
\* returned a response or raised, the client holds no open socket, so that a
\* following send_recv connects again and does not fail with "Socket already
\* in use".
C35_SessionRelease ==
    CallEnded => (~cli.socket /\ cli.out # "FileExistsError")

\* C36: client response reassembly terminates.  send_recv returns the
\* response once the announced number of bytes has been received, over any
\* number of reads, and it ends with a result or an error when the server
\* closes the connection before the announced bytes were delivered: a read
\* that finds the connection closed is not followed by another read.
C36_ReassemblyTerminates ==
    /\ cli.out = "returned" => cli.packet = cli.size
    /\ cli.empty_reads > 0 => cli.pc = "idle"

\* the label and version queries to the IP both succeeded
Answered(ip) == \E i \in QueriesTo(ip) : ~QueryFailed(dm.asked[i])

\* C37: discovery result completeness.  discover returns exactly one entry
\* for each distinct responder IP whose label and version queries both
\* succeeded, also when two responders at different IPs report the same
\* label.
C37_DiscoverComplete ==
    dm.pc = "done" =>
      \A ip \in Ips : Cardinality(EntriesOf(ip)) = IF Answered(ip) THEN 1 ELSE 0

\* C38: discovered group availability.  The property discovered raises
\* DeviceDiscoveryError only while no discovery has been performed: read
\* once discover has completed, it returns the group of discovered devices.
C38_DiscoveredAvailable ==
    dm.discovered.at = "done" => dm.discovered.result = "DeviceGroup"

\* the square of a tile divided in division times division squares that
\* pixel p lies in: the squares are numbered row by row
SquareOf(p, division) ==
    ((p \div TILE_WIDTH) \div (TILE_WIDTH \div division)) * division
    + ((p % TILE_WIDTH) \div (TILE_WIDTH \div division))

\* C40: tile colormap coverage.  For every division in {1, 2, 4} and every
\* tile index ii below num_tiles, set_colormap assigns each of the 64 pixel
\* positions of the tile exactly once, every pixel of square jj gets the
\* colormap entry ii * division^2 + jj, which lies inside the colormap of
\* length num_tiles * division^2; any other division raises ValueError
\* before anything is sent.
C40_TileCoverage ==
    /\ (tl.pc # "idle" /\ tl.division \notin {1, 2, 4})
         => (tl.pc = "raised" /\ tl.sent = <<>>)
    /\ tl.pc = "raised" => (tl.err = "ValueError" /\ tl.division \notin {1, 2, 4})
    /\ \A p \in Pixels : tl.writes[p] <= 1
    /\ \A i \in 1..Len(tl.sent) :
         /\ tl.sent[i].tile_index = i - 1
         /\ \A p \in Pixels :
              /\ tl.sent[i].writes[p] = 1
              /\ tl.sent[i].colors[p]
                   = (i - 1) * (tl.division * tl.division) + SquareOf(p, tl.division)
              /\ tl.sent[i].colors[p] \in 0..(tl.num_tiles * tl.division * tl.division - 1)
    /\ tl.pc = "done" => Len(tl.sent) = tl.num_tiles

\* the second tile of a chain divided in 16 squares has been sent
C40_Witness ==
    /\ tl.pc = "done"
    /\ tl.division = 4
    /\ Len(tl.sent) = 2
    /\ tl.sent[2].colors[63] = 31

====
